---- MODULE Spec2Model ----
(***************************************************************************)
(* Resume analysis and job-matching assistant (React, Firebase, Gemini).   *)
(*                                                                         *)
(* The module models the App component of src/index.tsx (the main app)     *)
(* and the App component of src/unnamed/part_002 (the earlier variant):    *)
(* the component state (useState cells), the handlers, the promises in     *)
(* flight (each a closure over the values its handler captured), the       *)
(* Firestore "users" collection and the auth listener.                     *)
(*                                                                         *)
(* A handler runs atomically up to its first await; what follows the       *)
(* await is a separate action that fires when the promise settles.         *)
(***************************************************************************)
EXTENDS Integers, Sequences, FiniteSets, Bags, TLC

\* ------------------------------------------------------------------ bounds
MaxReads  == 1   \* getDoc calls in flight
MaxWrites == 2   \* setDoc calls in flight
MaxTimers == 1   \* setTimeout(2000) callbacks pending
MaxCalls  == 2   \* generateContent calls in flight, per request kind
MaxJobs   == 3   \* length of the accumulated job list
MaxTextLen == 3  \* tokens of a model response text
MaxAuthEvents == 3   \* firings of the auth listener in a behaviour
MaxTasks == 2   \* awaits of part_002 in flight
MaxDocs  == 1   \* documents of the analyses collection
MaxUserOps    == 2   \* save-toggles, profile edits, profile saves, file choices in a behaviour
MaxUploads    == 2   \* file extractions in flight

\* ------------------------------------------------------------------ values
null == [null |-> TRUE]

NoError == "null"

\* previewType is 'html', 'pdf', 'text' or null
NoType == "null"

\* null where a file name (its parts) or a preview content (kind and data) is held
NoName == <<>>
NoContent == <<>>

Uids == {"u1", "u2"}

User(uid) == [uid |-> uid]

Job(l, t, c) == [applyLink |-> l, title |-> t, company |-> c]

J1  == Job("L1", "A", "X")
J1b == Job("L1", "B", "Y")
J2  == Job("L2", "C", "Z")

Jobs == {J1, J1b, J2}

Links == {j.applyLink : j \in Jobs}

defaultUserProfile ==
    [preferredTitles |-> "", minSalary |-> "", maxSalary |-> "",
     careerGoals |-> "", locationPreference |-> "",
     jobAlertsEnabled |-> FALSE, jobAlertsFrequency |-> "weekly"]

Analysis(role, level) == [role |-> role, experienceLevel |-> level]

A1 == Analysis("Backend Engineer", "Senior")

\* Resume texts: empty, whitespace only, and one with content
ResumeTexts == {"", "  ", "cv"}

\* String.prototype.trim on the resume texts
Trim(t) == IF t = "  " THEN "" ELSE t

\* A model response text is a sequence of tokens: the opening fence "```json\n",
\* the closing fence "\n```", prose, or the text of one JSON value.
Open  == [t |-> "open"]
Close == [t |-> "close"]
Prose == [t |-> "prose"]
JsonText(v) == [t |-> "json", v |-> v]

JsonNull == [t |-> "null"]
JsonObject(fields) == [t |-> "object", fields |-> fields]

\* JSON values a response may carry: null, {}, {"jobs": [...]} and an analysis
JobLists == {<<>>, <<J1>>, <<J1b, J2>>}

JobValues == {JsonNull, JsonObject(<<>>)} \cup {JsonObject([jobs |-> l]) : l \in JobLists}

JobTokens == {Open, Close, Prose} \cup {JsonText(v) : v \in JobValues}

RECURSIVE SeqsUpTo(_, _)
SeqsUpTo(S, n) ==
    IF n = 0 THEN {<<>>}
    ELSE LET shorter == SeqsUpTo(S, n - 1)
         IN  shorter \cup {Append(q, x) : q \in shorter, x \in S}

JobTexts == SeqsUpTo(JobTokens, MaxTextLen)

AnalysisTexts == {<<Prose>>, <<JsonText(JsonNull)>>, <<JsonText(JsonObject(A1))>>}

\* ------------------------------------------------------------------ helpers
\* { ...a, ...b }
Spread(a, b) == [k \in DOMAIN a \cup DOMAIN b |-> IF k \in DOMAIN b THEN b[k] ELSE a[k]]

\* x || d  for an optional field of a document
FieldOr(data, k, d) == IF k \in DOMAIN data THEN data[k] ELSE d

Range(s) == {s[i] : i \in DOMAIN s}

\* Array.prototype.filter is SelectSeq; Array.prototype.some
Some(s, p(_)) == \E i \in DOMAIN s : p(s[i])

\* promises in flight, over all keys of a counter
RECURSIVE SumOver(_, _)
SumOver(f, S) ==
    IF S = {} THEN 0
    ELSE LET k == CHOOSE x \in S : TRUE IN f[k] + SumOver(f, S \ {k})

InFlight(f) == SumOver(f, DOMAIN f)

\* Mutant: the merge option is missing, the document becomes data
SetDocMerge_overwrite(old, data) == data

\* Mutant: an array field of data is joined to the stored array
SetDocMerge_joined(old, data) ==
    IF old = null THEN data
    ELSE [k \in DOMAIN old \cup DOMAIN data |->
            IF k \notin DOMAIN data THEN old[k]
            ELSE IF k = "userProfile" /\ k \in DOMAIN old THEN Spread(old[k], data[k])
            ELSE IF k = "savedJobs" /\ k \in DOMAIN old THEN old[k] \o data[k]
            ELSE data[k]]

\* setDoc(ref, data, { merge: true }): the fields of data replace the document's,
\* a map field is merged key by key, an array field is replaced whole; the
\* document's other fields stay.
SetDocMerge(old, data) ==
    IF old = null THEN data
    ELSE [k \in DOMAIN old \cup DOMAIN data |->
            IF k \notin DOMAIN data THEN old[k]
            ELSE IF k = "userProfile" /\ k \in DOMAIN old THEN Spread(old[k], data[k])
            ELSE data[k]]

\* setDoc(ref, data): the document becomes data
SetDoc(old, data) == data

\* ------------------------------------------------------------------ state
VARIABLES
    app,                  \* which App component runs: "index" or "part_002"
    firebaseInitialized,  \* firebase.ts: initialized (auth and db are non-null iff TRUE)
    user, isAuthLoading, savedJobs, userProfile, profileSaved, error, currentView,
    step, resumeText, analysisResult, jobsResult, isFindingMoreJobs, jobFeedback,
    store,      \* Firestore collection "users": uid -> document or null
    reads,      \* getDoc promises in flight: uid -> count
    writes,     \* setDoc promises in flight, in the order they were issued
    timers,     \* pending setTimeout(() => setProfileSaved(false), 2000)
    calls,      \* generateContent promises in flight: request kind -> count
    prompt,     \* contents of the latest job-search generateContent request
    uploadedFileName, previewContent, previewType,   \* index.tsx 311-314
    uploads,    \* files whose extraction is pending
    authReady,  \* the auth listener has fired once
    analysisHistory, authLoading,   \* part_002: component state
    analyses,   \* part_002: Firestore collection "analyses"
    tasks,      \* part_002: async handlers suspended at an await
    issued      \* events so far, by kind (bounds the behaviours explored)

authVars  == <<user, isAuthLoading, authReady>>
savedVars == <<savedJobs, userProfile, profileSaved>>
flowVars  == <<step, resumeText, analysisResult, jobsResult, isFindingMoreJobs, jobFeedback>>
ioVars    == <<store, reads, writes, timers, calls>>
confVars  == <<app, firebaseInitialized>>
p2Vars    == <<analysisHistory, authLoading, analyses, tasks>>
uploadVars == <<uploadedFileName, previewContent, previewType, uploads>>

vars ==
    <<confVars, authVars, savedVars, error, currentView, flowVars, ioVars, prompt, uploadVars,
      p2Vars, issued>>

\* firebase.ts exports auth and db non-null exactly when initialization succeeded
auth == firebaseInitialized

db == firebaseInitialized

\* ------------------------------------------------------------------ initial state
\* Documents the "users" collection may hold when the page loads: none, one
\* written by this build, one written by a build that stored fewer fields.
FullDoc ==
    [savedJobs |-> <<J1>>, userProfile |-> [defaultUserProfile EXCEPT !.preferredTitles = "Dev"]]

PartialDoc == [userProfile |-> [preferredTitles |-> "Dev"]]

\* u1 has a document when the page loads or has none, u2 has none
InitialStores ==
    { [u \in Uids |-> null],
      [u \in Uids |-> IF u = "u1" THEN FullDoc ELSE null],
      [u \in Uids |-> IF u = "u1" THEN PartialDoc ELSE null] }

\* index.tsx 290-314: the useState initial values, after the mount effect
\* (319-322) has lowered isAuthLoading where firebase is absent
InitIndexState ==
    /\ user = null
    /\ isAuthLoading = firebaseInitialized
    /\ savedJobs = <<>>
    /\ userProfile = defaultUserProfile
    /\ profileSaved = FALSE
    /\ error = NoError
    /\ currentView = "main"
    /\ step = "input"
    /\ resumeText = ""
    /\ analysisResult = null
    /\ jobsResult = null
    /\ isFindingMoreJobs = FALSE
    /\ jobFeedback = <<>>

\* index.tsx 311-314: no file chosen
InitUpload ==
    /\ uploadedFileName = NoName
    /\ previewContent = NoContent
    /\ previewType = NoType
    /\ uploads = EmptyBag

InitIO ==
    /\ reads = [u \in Uids |-> 0]
    /\ writes = <<>>
    /\ timers = 0
    /\ calls = [k \in {"analyze", "findJobs", "findMore"} |-> 0]
    /\ prompt = null
    /\ InitUpload
    /\ authReady = FALSE

InitP2Idle ==
    /\ analysisHistory = <<>>
    /\ authLoading = TRUE
    /\ analyses = <<>>
    /\ tasks = EmptyBag

EventKinds == {"auth", "op"}

InitIndex ==
    /\ app = "index"
    /\ issued = [k \in EventKinds |-> 0]
    /\ firebaseInitialized \in BOOLEAN
    /\ store \in InitialStores
    /\ ~firebaseInitialized => store = [u \in Uids |-> null]
    /\ InitIndexState
    /\ InitIO
    /\ InitP2Idle

\* ------------------------------------------------------------------ index.tsx: render conditions
\* index.tsx 1012, 778-977: which controls the committed render offers
MainShown == currentView = "main"

ProfileFormShown == MainShown /\ step = "analysis_result" /\ analysisResult # null

SaveProfileEnabled == ProfileFormShown /\ user # null

ResultCardShown(job) ==
    MainShown /\ step = "jobs_result" /\ jobsResult # null /\ job \in Range(jobsResult.jobs)

SavedCardShown(job) == currentView = "saved_jobs" /\ job \in Range(savedJobs)

SavedButtonShown == ~isAuthLoading /\ user # null /\ Len(savedJobs) > 0 /\ MainShown

\* index.tsx 972, 1012: the error message is an element of the 'input' case of
\* renderContent, which the main view renders
ErrorShown == currentView = "main" /\ step = "input" /\ error # NoError

\* ------------------------------------------------------------------ index.tsx: session and store
\* index.tsx 324-346, the listener up to its first await
onAuthStateChanged(u) ==
    /\ user' = u
    /\ IF u # null /\ db
       THEN /\ InFlight(reads) < MaxReads
            /\ reads' = [reads EXCEPT ![u.uid] = @ + 1]
            /\ UNCHANGED <<savedJobs, userProfile, isAuthLoading>>
       ELSE /\ savedJobs' = <<>>
            /\ userProfile' = defaultUserProfile
            /\ isAuthLoading' = FALSE
            /\ UNCHANGED reads

\* The auth collaborator fires the listener once at startup and on every change
\* of the signed-in user (a change made in another tab included).
AuthStateChanged(u) ==
    /\ app = "index" /\ auth
    /\ ~authReady \/ ((user = null) # (u = null))
    /\ authReady' = TRUE
    /\ onAuthStateChanged(u)
    /\ UNCHANGED <<confVars, prompt, uploadVars, profileSaved, error, currentView, flowVars,
                   store, writes, timers, calls, p2Vars>>

\* index.tsx 329-333: getDoc resolved, the document exists
getDocExists(uid) ==
    /\ app = "index"
    /\ reads[uid] > 0
    /\ store[uid] # null
    /\ reads' = [reads EXCEPT ![uid] = @ - 1]
    /\ LET data == store[uid] IN
         /\ savedJobs' = FieldOr(data, "savedJobs", <<>>)
         /\ userProfile' = Spread(defaultUserProfile, FieldOr(data, "userProfile", <<>>))
    /\ isAuthLoading' = FALSE
    /\ UNCHANGED <<confVars, prompt, uploadVars, user, authReady, profileSaved, error, currentView,
                   flowVars, store, writes, timers, calls, p2Vars>>

\* the document the listener creates for a user who has none (index.tsx 335)
NewUserDoc == [savedJobs |-> <<>>, userProfile |-> defaultUserProfile]

\* index.tsx 334-335: getDoc resolved, no document: setDoc is issued
getDocMissing(uid) ==
    /\ app = "index"
    /\ reads[uid] > 0
    /\ store[uid] = null
    /\ Len(writes) < MaxWrites
    /\ reads' = [reads EXCEPT ![uid] = @ - 1]
    /\ writes' = Append(writes, [op |-> "create", uid |-> uid, merge |-> FALSE,
                                 data |-> NewUserDoc, prev |-> <<>>])
    /\ UNCHANGED <<confVars, prompt, uploadVars, authVars, savedVars, error, currentView, flowVars,
                   store, timers, calls, p2Vars>>

\* index.tsx 337-340, 345: getDoc rejected
getDocRejected(uid) ==
    /\ app = "index"
    /\ reads[uid] > 0
    /\ reads' = [reads EXCEPT ![uid] = @ - 1]
    /\ error' = "Could not load your profile data."
    /\ isAuthLoading' = FALSE
    /\ UNCHANGED <<confVars, prompt, uploadVars, user, authReady, savedVars, currentView, flowVars,
                   store, writes, timers, calls, p2Vars>>

\* Firestore delivers a setDoc to the document it names in collection st
Delivered(st, w) ==
    [st EXCEPT ![w.uid] = IF w.merge THEN SetDocMerge(@, w.data) ELSE SetDoc(@, w.data)]

\* Firestore applies a resolved setDoc
Applied(w) == Delivered(store, w)

\* the oldest setDoc in flight is of kind op
Settling(op) == app = "index" /\ writes # <<>> /\ Head(writes).op = op

\* index.tsx 335, 345: the creating setDoc resolved
createDocResolved ==
    /\ Settling("create")
    /\ store' = Applied(Head(writes))
    /\ writes' = Tail(writes)
    /\ isAuthLoading' = FALSE
    /\ UNCHANGED <<confVars, prompt, uploadVars, user, authReady, savedVars, error, currentView,
                   flowVars, reads, timers, calls, p2Vars>>

\* index.tsx 337-340, 345: the creating setDoc rejected
createDocRejected ==
    /\ Settling("create")
    /\ writes' = Tail(writes)
    /\ error' = "Could not load your profile data."
    /\ isAuthLoading' = FALSE
    /\ UNCHANGED <<confVars, prompt, uploadVars, user, authReady, savedVars, currentView,
                   flowVars, store, reads, timers, calls, p2Vars>>

\* index.tsx 636-644
handleProfileChange(name, value) ==
    /\ userProfile' = [userProfile EXCEPT ![name] = value]
    /\ UNCHANGED <<confVars, prompt, uploadVars, authVars, savedJobs, profileSaved, error,
                   currentView,
                   flowVars, ioVars, p2Vars>>

\* Mutant: the signed-in check is missing, doc(db, 'users', user.uid) throws
\* inside the try
handleSaveProfile_unguarded ==
    /\ IF user = null \/ ~db
       THEN /\ error' = "Failed to save profile. Please try again."
            /\ UNCHANGED writes
       ELSE /\ Len(writes) < MaxWrites
            /\ writes' = Append(writes, [op |-> "profile", uid |-> user.uid, merge |-> TRUE,
                                         data |-> [userProfile |-> userProfile],
                                         prev |-> <<>>])
            /\ UNCHANGED error
    /\ UNCHANGED <<confVars, prompt, uploadVars, authVars, savedVars, currentView, flowVars,
                   store, reads, timers, calls, p2Vars>>

\* index.tsx 646-652, the handler up to its await
handleSaveProfile ==
    /\ IF user = null \/ ~db
       THEN /\ error' = "You must be signed in to save your profile."
            /\ UNCHANGED writes
       ELSE /\ Len(writes) < MaxWrites
            /\ writes' = Append(writes, [op |-> "profile", uid |-> user.uid, merge |-> TRUE,
                                         data |-> [userProfile |-> userProfile],
                                         prev |-> <<>>])
            /\ UNCHANGED error
    /\ UNCHANGED <<confVars, prompt, uploadVars, authVars, savedVars, currentView, flowVars,
                   store, reads, timers, calls, p2Vars>>

\* index.tsx 652-654: the profile setDoc resolved
saveProfileResolved ==
    /\ Settling("profile")
    /\ timers < MaxTimers
    /\ store' = Applied(Head(writes))
    /\ writes' = Tail(writes)
    /\ profileSaved' = TRUE
    /\ timers' = timers + 1
    /\ UNCHANGED <<confVars, prompt, uploadVars, authVars, savedJobs, userProfile, error,
                   currentView,
                   flowVars, reads, calls, p2Vars>>

\* index.tsx 655-658: the profile setDoc rejected
saveProfileRejected ==
    /\ Settling("profile")
    /\ writes' = Tail(writes)
    /\ error' = "Failed to save profile. Please try again."
    /\ UNCHANGED <<confVars, prompt, uploadVars, authVars, savedVars, currentView, flowVars,
                   store, reads, timers, calls, p2Vars>>

\* index.tsx 654: the timeout callback
profileSavedTimeout ==
    /\ app = "index"
    /\ timers > 0
    /\ timers' = timers - 1
    /\ profileSaved' = FALSE
    /\ UNCHANGED <<confVars, prompt, uploadVars, authVars, savedJobs, userProfile, error,
                   currentView,
                   flowVars, store, reads, writes, calls, p2Vars>>

\* Mutant: jobs are compared as whole values, not by applyLink
updatedSavedJobs_byValue(saved, jobToToggle) ==
    IF Some(saved, LAMBDA job : job = jobToToggle)
    THEN SelectSeq(saved, LAMBDA job : job # jobToToggle)
    ELSE Append(saved, jobToToggle)

\* Mutant: a new job is put at the front of the list
updatedSavedJobs_prepend(saved, jobToToggle) ==
    IF Some(saved, LAMBDA job : job.applyLink = jobToToggle.applyLink)
    THEN SelectSeq(saved, LAMBDA job : job.applyLink # jobToToggle.applyLink)
    ELSE <<jobToToggle>> \o saved

\* index.tsx 668-673: the list toggleSaveJob computes
updatedSavedJobs(saved, jobToToggle) ==
    IF Some(saved, LAMBDA job : job.applyLink = jobToToggle.applyLink)
    THEN SelectSeq(saved, LAMBDA job : job.applyLink # jobToToggle.applyLink)
    ELSE Append(saved, jobToToggle)

\* Mutant: the signed-in check is missing, the list is toggled for nobody
toggleSaveJob_unguarded(jobToToggle) ==
    /\ savedJobs' = updatedSavedJobs(savedJobs, jobToToggle)
    /\ IF db /\ user # null
       THEN /\ Len(writes) < MaxWrites
            /\ writes' = Append(writes,
                  [op |-> "saved", uid |-> user.uid, merge |-> TRUE,
                   data |-> [savedJobs |-> updatedSavedJobs(savedJobs, jobToToggle)],
                   prev |-> savedJobs])
       ELSE UNCHANGED writes
    /\ UNCHANGED error
    /\ UNCHANGED <<confVars, prompt, uploadVars, authVars, userProfile, profileSaved,
                   currentView, flowVars,
                   store, reads, timers, calls, p2Vars>>

\* index.tsx 662-684, the handler up to the promise it leaves behind
toggleSaveJob(jobToToggle) ==
    /\ IF user = null
       THEN /\ error' = "Please sign in to save jobs."
            /\ UNCHANGED <<savedJobs, writes>>
       ELSE /\ savedJobs' = updatedSavedJobs(savedJobs, jobToToggle)
            /\ IF db /\ user # null
               THEN /\ Len(writes) < MaxWrites
                    /\ writes' = Append(writes,
                          [op |-> "saved", uid |-> user.uid, merge |-> TRUE,
                           data |-> [savedJobs |-> updatedSavedJobs(savedJobs, jobToToggle)],
                           prev |-> savedJobs])
               ELSE UNCHANGED writes
            /\ UNCHANGED error
    /\ UNCHANGED <<confVars, prompt, uploadVars, authVars, userProfile, profileSaved,
                   currentView, flowVars,
                   store, reads, timers, calls, p2Vars>>

\* index.tsx 677: the saved-jobs setDoc resolved (no continuation)
saveJobResolved ==
    /\ Settling("saved")
    /\ store' = Applied(Head(writes))
    /\ writes' = Tail(writes)
    /\ UNCHANGED <<confVars, prompt, uploadVars, authVars, savedVars, error, currentView, flowVars,
                   reads, timers, calls, p2Vars>>

\* Mutant: the rejection is reported but the list is not rolled back
saveJobRejected_noRollback ==
    /\ Settling("saved")
    /\ writes' = Tail(writes)
    /\ error' = "Could not save job. Please try again."
    /\ UNCHANGED <<confVars, prompt, uploadVars, authVars, savedVars, currentView, flowVars,
                   store, reads, timers, calls, p2Vars>>

\* index.tsx 678-682: the saved-jobs setDoc rejected
saveJobRejected ==
    /\ Settling("saved")
    /\ writes' = Tail(writes)
    /\ error' = "Could not save job. Please try again."
    /\ savedJobs' = Head(writes).prev
    /\ UNCHANGED <<confVars, prompt, uploadVars, authVars, userProfile, profileSaved,
                   currentView, flowVars,
                   store, reads, timers, calls, p2Vars>>

\* index.tsx 752, 993
setCurrentView(view) ==
    /\ currentView' = view
    /\ UNCHANGED <<confVars, prompt, uploadVars, authVars, savedVars, error, flowVars, ioVars,
                   p2Vars>>

\* ------------------------------------------------------------------ index.tsx: analysis and job search
\* JSON.parse of a response text
JSONParse(text) ==
    IF Len(text) = 1 /\ text[1].t = "json"
    THEN [ok |-> TRUE, value |-> text[1].v]
    ELSE [ok |-> FALSE, message |-> "Unexpected token"]

\* index.tsx 949
setResumeText(text) ==
    /\ resumeText' = text
    /\ UNCHANGED <<confVars, prompt, uploadVars, authVars, savedVars, error, currentView, step,
                   analysisResult,
                   jobsResult, isFindingMoreJobs, jobFeedback, ioVars, p2Vars>>

\* Mutant: the check of the trimmed text is missing
handleAnalyze_blank ==
    /\ calls["analyze"] < MaxCalls
    /\ step' = "analyzing"
    /\ error' = NoError
    /\ analysisResult' = null
    /\ calls' = [calls EXCEPT !["analyze"] = @ + 1]
    /\ UNCHANGED <<confVars, prompt, uploadVars, authVars, savedVars, currentView, resumeText,
                   jobsResult,
                   isFindingMoreJobs, jobFeedback, store, reads, writes, timers, p2Vars>>

\* index.tsx 441-446, the handler up to its await
handleAnalyze ==
    /\ Trim(resumeText) # ""
    /\ calls["analyze"] < MaxCalls
    /\ step' = "analyzing"
    /\ error' = NoError
    /\ analysisResult' = null
    /\ calls' = [calls EXCEPT !["analyze"] = @ + 1]
    /\ UNCHANGED <<confVars, prompt, uploadVars, authVars, savedVars, currentView, resumeText,
                   jobsResult,
                   isFindingMoreJobs, jobFeedback, store, reads, writes, timers, p2Vars>>

\* index.tsx 480-485: the catch block of handleAnalyze
analyzeCatch(message) ==
    /\ error' = "Analysis failed: " \o message \o "."
    /\ step' = "input"

\* Mutant: line 477 is missing, a response of JSON null does not throw
analyzeResolved_nullShown(text) ==
    /\ app = "index"
    /\ calls["analyze"] > 0
    /\ calls' = [calls EXCEPT !["analyze"] = @ - 1]
    /\ LET r == JSONParse(text) IN
         IF ~r.ok
         THEN analyzeCatch(r.message) /\ UNCHANGED analysisResult
         ELSE /\ analysisResult' = IF r.value.t = "null" THEN null ELSE r.value.fields
              /\ step' = "analysis_result"
              /\ UNCHANGED error
    /\ UNCHANGED <<confVars, prompt, uploadVars, authVars, savedVars, currentView, resumeText,
                   jobsResult,
                   isFindingMoreJobs, jobFeedback, store, reads, writes, timers, p2Vars>>

\* index.tsx 475-478 and 480-485: generateContent resolved with text
analyzeResolved(text) ==
    /\ app = "index"
    /\ calls["analyze"] > 0
    /\ calls' = [calls EXCEPT !["analyze"] = @ - 1]
    /\ LET r == JSONParse(text) IN
         IF ~r.ok
         THEN analyzeCatch(r.message) /\ UNCHANGED analysisResult
         ELSE IF r.value.t = "null"
         THEN /\ analysisResult' = null
              /\ analyzeCatch("Cannot read properties of null (reading 'experienceLevel')")
         ELSE /\ analysisResult' = r.value.fields
              /\ step' = "analysis_result"
              /\ UNCHANGED error
    /\ UNCHANGED <<confVars, prompt, uploadVars, authVars, savedVars, currentView, resumeText,
                   jobsResult,
                   isFindingMoreJobs, jobFeedback, store, reads, writes, timers, p2Vars>>

\* index.tsx 469-473, 480-485: generateContent rejected
analyzeRejected ==
    /\ app = "index"
    /\ calls["analyze"] > 0
    /\ calls' = [calls EXCEPT !["analyze"] = @ - 1]
    /\ analyzeCatch("fetch failed")
    /\ UNCHANGED <<confVars, prompt, uploadVars, authVars, savedVars, currentView, resumeText,
                   analysisResult,
                   jobsResult, isFindingMoreJobs, jobFeedback, store, reads, writes, timers,
                   p2Vars>>

\* positions of the opening fences that a closing fence follows
FencedAt(text) ==
    {i \in DOMAIN text : text[i] = Open /\ \E j \in DOMAIN text : j > i /\ text[j] = Close}

Min(S) == CHOOSE x \in S : \A y \in S : x <= y

\* text.match(/```json\n([\s\S]*?)\n```/): null, or the captured group: what
\* stands between the first opening fence and the first closing fence after it
Match(text) ==
    IF FencedAt(text) = {} THEN null
    ELSE LET i == Min(FencedAt(text))
             j == Min({k \in DOMAIN text : k > i /\ text[k] = Close})
         IN  [group |-> SubSeq(text, i + 1, j - 1)]

NoJobListMessage == "AI response did not contain a valid JSON job list."

\* Mutant: an object without jobs, or with none, is rejected
ParseJobs_strict(text) ==
    LET jsonBlockMatch == Match(text) IN
    IF jsonBlockMatch = null \/ jsonBlockMatch.group = <<>>
    THEN [ok |-> FALSE, message |-> NoJobListMessage]
    ELSE LET r == JSONParse(jsonBlockMatch.group) IN
         IF ~r.ok THEN [ok |-> FALSE, message |-> r.message]
         ELSE IF r.value.t = "null"
         THEN [ok |-> FALSE, message |-> "Cannot read properties of null (reading 'jobs')"]
         ELSE IF FieldOr(r.value.fields, "jobs", <<>>) = <<>>
         THEN [ok |-> FALSE, message |-> NoJobListMessage]
         ELSE [ok |-> TRUE, jobs |-> r.value.fields.jobs]

\* index.tsx 579-589 and 613-620, part_002 441-451: from the response text to the
\* job list, or to the exception thrown on the way
ParseJobs(text) ==
    LET jsonBlockMatch == Match(text) IN
    IF jsonBlockMatch = null \/ jsonBlockMatch.group = <<>>
    THEN [ok |-> FALSE, message |-> NoJobListMessage]
    ELSE LET r == JSONParse(jsonBlockMatch.group) IN
         IF ~r.ok THEN [ok |-> FALSE, message |-> r.message]
         ELSE IF r.value.t = "null"
         THEN [ok |-> FALSE, message |-> "Cannot read properties of null (reading 'jobs')"]
         ELSE [ok |-> TRUE, jobs |-> FieldOr(r.value.fields, "jobs", <<>>)]

\* ------------------------------------------------------------------ index.tsx: the job-search prompt
\* Array.prototype.join
RECURSIVE Join(_, _)
Join(parts, sep) ==
    IF parts = <<>> THEN ""
    ELSE IF Len(parts) = 1 THEN parts[1]
    ELSE parts[1] \o sep \o Join(Tail(parts), sep)

\* x || d  for a string
StrOr(x, d) == IF x # "" THEN x ELSE d

Digit(d) == <<"0", "1", "2", "3", "4", "5", "6", "7", "8", "9">>[d + 1]

\* the decimal digits of a natural number
RECURSIVE Decimal(_)
Decimal(n) == IF n < 10 THEN Digit(n) ELSE Decimal(n \div 10) \o Digit(n % 10)

\* the decimal digits of n < 10^w, zero-padded to width w
RECURSIVE Padded(_, _)
Padded(n, w) == IF w = 0 THEN "" ELSE Padded(n \div 10, w - 1) \o Digit(n % 10)

\* the digits above the last three, in groups of two
RECURSIVE Lakhs(_)
Lakhs(n) == IF n < 100 THEN Decimal(n) ELSE Lakhs(n \div 100) \o "," \o Padded(n % 100, 2)

\* Number.prototype.toLocaleString('en-IN') of a natural number: the last three
\* digits form a group, the digits before them groups of two
ToLocaleString(n) ==
    IF n < 1000 THEN Decimal(n) ELSE Lakhs(n \div 1000) \o "," \o Padded(n % 1000, 3)

\* The salary fields of the profile form are strings of digits; Number(s)
Number(s) == CASE s = "0" -> 0 [] s = "50000" -> 50000 [] s = "1200000" -> 1200000

\* Mutant: an absent bound is formatted like a present one, Number('') being 0
FormatSalary_zero(s) == "₹" \o ToLocaleString(IF s = "" THEN 0 ELSE Number(s))

\* index.tsx 494-495: `₹${Number(s).toLocaleString('en-IN')}` or ''
FormatSalary(s) == IF s # "" THEN "₹" \o ToLocaleString(Number(s)) ELSE ""

\* index.tsx 496: [minSal, maxSal].filter(Boolean).join(' - ')
salaryRange(minSalary, maxSalary) ==
    Join(SelectSeq(<<FormatSalary(minSalary), FormatSalary(maxSalary)>>, LAMBDA x : x # ""),
         " - ")

\* index.tsx 523, 531, 541: the line of a job in the prompt
JobLine(job) == "- " \o job.title \o " at " \o job.company

\* Array.prototype.map(job => line)
JobLines(jobs) == [i \in DOMAIN jobs |-> JobLine(jobs[i])]

\* Map.prototype.set on a map kept as the sequence of its values in insertion
\* order, keyed by applyLink: a present key keeps its place and gets the value
MapSet(m, job) ==
    IF \E i \in DOMAIN m : m[i].applyLink = job.applyLink
    THEN [i \in DOMAIN m |-> IF m[i].applyLink = job.applyLink THEN job ELSE m[i]]
    ELSE Append(m, job)

\* jobs.forEach(job => m.set(job.applyLink, job))
RECURSIVE MapSetAll(_, _)
MapSetAll(m, jobs) ==
    IF jobs = <<>> THEN m ELSE MapSetAll(MapSet(m, Head(jobs)), Tail(jobs))

\* feedback[applyLink]: 'like', 'dislike' or undefined
FeedbackOf(feedback, applyLink) ==
    IF applyLink \in DOMAIN feedback THEN feedback[applyLink] ELSE "undefined"

\* Mutant: a saved job that the user disliked is kept out of the liked jobs
likedJobs_notDisliked(currentJobs, feedback, saved) ==
    MapSetAll(MapSetAll(<<>>, SelectSeq(currentJobs,
                                 LAMBDA job : FeedbackOf(feedback, job.applyLink) = "like")),
              SelectSeq(saved, LAMBDA job : FeedbackOf(feedback, job.applyLink) # "dislike"))

\* index.tsx 510-518: Array.from(likedJobs.values())
likedJobs(currentJobs, feedback, saved) ==
    MapSetAll(MapSetAll(<<>>, SelectSeq(currentJobs,
                                 LAMBDA job : FeedbackOf(feedback, job.applyLink) = "like")),
              saved)

\* index.tsx 519
dislikedJobs(currentJobs, feedback) ==
    SelectSeq(currentJobs, LAMBDA job : FeedbackOf(feedback, job.applyLink) = "dislike")

\* Mutant: enabled job alerts count as a profile
hasProfile_alerts ==
    \/ userProfile.preferredTitles # "" \/ userProfile.minSalary # ""
    \/ userProfile.maxSalary # "" \/ userProfile.careerGoals # ""
    \/ userProfile.locationPreference # "" \/ userProfile.jobAlertsEnabled

\* index.tsx 492: the truthiness of the five profile fields
hasProfile ==
    \/ userProfile.preferredTitles # "" \/ userProfile.minSalary # ""
    \/ userProfile.maxSalary # "" \/ userProfile.careerGoals # ""
    \/ userProfile.locationPreference # ""

\* index.tsx 491-508: the section's four lines, each the text after its label;
\* no section is the empty sequence
profilePromptSection ==
    IF hasProfile
    THEN <<[titles    |-> StrOr(userProfile.preferredTitles, "Not specified"),
            locations |-> StrOr(userProfile.locationPreference, "Not specified"),
            salary    |-> StrOr(salaryRange(userProfile.minSalary, userProfile.maxSalary),
                                "Not specified"),
            goals     |-> StrOr(userProfile.careerGoals, "Not specified")]>>
    ELSE <<>>

\* index.tsx 521-537: the POSITIVE and the NEGATIVE section, each present when
\* it has jobs to list
feedbackPromptSection(currentJobs, feedback, saved) ==
    (IF Len(likedJobs(currentJobs, feedback, saved)) > 0
     THEN <<[interest |-> "POSITIVE",
             lines |-> JobLines(likedJobs(currentJobs, feedback, saved))]>>
     ELSE <<>>)
    \o
    (IF Len(dislikedJobs(currentJobs, feedback)) > 0
     THEN <<[interest |-> "NEGATIVE", lines |-> JobLines(dislikedJobs(currentJobs, feedback))]>>
     ELSE <<>>)

\* Mutant: a job whose applyLink an earlier job of the list has is not listed
existingJobsSection_distinct(findMore) ==
    IF findMore /\ jobsResult # null /\ Len(jobsResult.jobs) > 0
    THEN <<[lines |-> JobLines(MapSetAll(<<>>, jobsResult.jobs))]>>
    ELSE <<>>

\* index.tsx 539-547: the section under "NEW jobs that are NOT in the list
\* below", with its lines; no section is the empty sequence
existingJobsSection(findMore) ==
    IF findMore /\ jobsResult # null /\ Len(jobsResult.jobs) > 0
    THEN <<[lines |-> JobLines(jobsResult.jobs)]>>
    ELSE <<>>

\* "find 10 ... job openings": a fixed number; "find at least 20": a lower bound
Exactly(n) == [n |-> n, orMore |-> FALSE]

AtLeast(n) == [n |-> n, orMore |-> TRUE]

\* Mutant: a find-more asks for jobs without a number
generateJobSearchPrompt_more(findMore, currentJobs, feedback, saved) ==
    IF analysisResult = null THEN ""
    ELSE [request  |-> [count |-> IF findMore THEN AtLeast(1) ELSE Exactly(10),
                        region |-> "India"],
          role     |-> analysisResult.role,
          profile  |-> profilePromptSection,
          feedback |-> feedbackPromptSection(currentJobs, feedback, saved),
          existing |-> existingJobsSection(findMore)]

\* index.tsx 488-563: the prompt, as its parts in the order of the template.
\* request is what line 549 asks for, whatever findMore is; the lines of 551-557
\* and 560-562 that the arguments do not change are left out but for the role.
generateJobSearchPrompt(findMore, currentJobs, feedback, saved) ==
    IF analysisResult = null THEN ""
    ELSE [request  |-> [count |-> Exactly(10), region |-> "India"],
          role     |-> analysisResult.role,
          profile  |-> profilePromptSection,
          feedback |-> feedbackPromptSection(currentJobs, feedback, saved),
          existing |-> existingJobsSection(findMore)]

\* index.tsx 565-569, the handler up to its await
handleFindJobs ==
    /\ analysisResult # null
    /\ calls["findJobs"] < MaxCalls
    /\ step' = "finding_jobs"
    /\ error' = NoError
    /\ jobsResult' = null
    /\ calls' = [calls EXCEPT !["findJobs"] = @ + 1]
    /\ prompt' = generateJobSearchPrompt(FALSE, <<>>, <<>>, savedJobs)
    /\ UNCHANGED <<confVars, uploadVars, authVars, savedVars, currentView, resumeText,
                   analysisResult,
                   isFindingMoreJobs, jobFeedback, store, reads, writes, timers, p2Vars>>

\* Mutant: the catch block returns to the input step, as handleAnalyze's does
findJobsCatch_toInput(message) ==
    /\ error' = "Job search failed: " \o message \o "."
    /\ step' = "input"

\* index.tsx 592-597: the catch block of handleFindJobs
findJobsCatch(message) ==
    /\ error' = "Job search failed: " \o message \o "."
    /\ step' = "analysis_result"

\* index.tsx 579-597: generateContent resolved with text
findJobsResolved(text) ==
    /\ app = "index"
    /\ calls["findJobs"] > 0
    /\ calls' = [calls EXCEPT !["findJobs"] = @ - 1]
    /\ LET r == ParseJobs(text) IN
         IF r.ok
         THEN /\ jobsResult' = [jobs |-> r.jobs]
              /\ step' = "jobs_result"
              /\ UNCHANGED error
         ELSE /\ findJobsCatch(r.message)
              /\ UNCHANGED jobsResult
    /\ UNCHANGED <<confVars, prompt, uploadVars, authVars, savedVars, currentView, resumeText,
                   analysisResult,
                   isFindingMoreJobs, jobFeedback, store, reads, writes, timers, p2Vars>>

\* index.tsx 573-577, 592-597: generateContent rejected
findJobsRejected ==
    /\ app = "index"
    /\ calls["findJobs"] > 0
    /\ calls' = [calls EXCEPT !["findJobs"] = @ - 1]
    /\ findJobsCatch("fetch failed")
    /\ UNCHANGED <<confVars, prompt, uploadVars, authVars, savedVars, currentView, resumeText,
                   analysisResult,
                   jobsResult, isFindingMoreJobs, jobFeedback, store, reads, writes, timers,
                   p2Vars>>

\* index.tsx 600-603, the handler up to its await
handleFindMoreJobs ==
    /\ analysisResult # null
    /\ calls["findMore"] < MaxCalls
    /\ isFindingMoreJobs' = TRUE
    /\ error' = NoError
    /\ calls' = [calls EXCEPT !["findMore"] = @ + 1]
    /\ prompt' = generateJobSearchPrompt(TRUE, IF jobsResult # null THEN jobsResult.jobs ELSE <<>>,
                                         jobFeedback, savedJobs)
    /\ UNCHANGED <<confVars, uploadVars, authVars, savedVars, currentView, step, resumeText,
                   analysisResult, jobsResult, jobFeedback, store, reads, writes, timers,
                   p2Vars>>

\* Mutant: a new job whose applyLink the list already holds is dropped
appendJobs_dedup(prev, newJobs) ==
    LET old == IF prev # null THEN prev.jobs ELSE <<>> IN
    IF Len(newJobs) > 0
    THEN [jobs |-> old \o SelectSeq(newJobs,
                      LAMBDA j : \A i \in DOMAIN old : old[i].applyLink # j.applyLink)]
    ELSE prev

\* index.tsx 622-626: the state updater of a find-more that found newJobs
appendJobs(prev, newJobs) ==
    IF Len(newJobs) > 0
    THEN [jobs |-> (IF prev # null THEN prev.jobs ELSE <<>>) \o newJobs]
    ELSE prev

\* index.tsx 613-633: generateContent resolved with text
findMoreResolved(text) ==
    /\ app = "index"
    /\ calls["findMore"] > 0
    /\ calls' = [calls EXCEPT !["findMore"] = @ - 1]
    /\ LET r == ParseJobs(text) IN
         IF r.ok
         THEN /\ (jobsResult # null => Len(jobsResult.jobs) + Len(r.jobs) <= MaxJobs)
              /\ jobsResult' = appendJobs(jobsResult, r.jobs)
              /\ UNCHANGED error
         ELSE /\ error' = "Finding more jobs failed: " \o r.message \o "."
              /\ UNCHANGED jobsResult
    /\ isFindingMoreJobs' = FALSE
    /\ UNCHANGED <<confVars, prompt, uploadVars, authVars, savedVars, currentView, step, resumeText,
                   analysisResult, jobFeedback, store, reads, writes, timers, p2Vars>>

\* Mutant: the finally block is missing, the flag stays raised after a failure
findMoreRejected_noFinally ==
    /\ app = "index"
    /\ calls["findMore"] > 0
    /\ calls' = [calls EXCEPT !["findMore"] = @ - 1]
    /\ error' = "Finding more jobs failed: fetch failed."
    /\ UNCHANGED <<confVars, prompt, uploadVars, authVars, savedVars, currentView, step, resumeText,
                   analysisResult, jobsResult, isFindingMoreJobs, jobFeedback, store, reads,
                   writes, timers, p2Vars>>

\* index.tsx 607-611, 627-633: generateContent rejected
findMoreRejected ==
    /\ app = "index"
    /\ calls["findMore"] > 0
    /\ calls' = [calls EXCEPT !["findMore"] = @ - 1]
    /\ error' = "Finding more jobs failed: fetch failed."
    /\ isFindingMoreJobs' = FALSE
    /\ UNCHANGED <<confVars, prompt, uploadVars, authVars, savedVars, currentView, step, resumeText,
                   analysisResult, jobsResult, jobFeedback, store, reads, writes, timers,
                   p2Vars>>

\* Mutant: the reaction is always stored, a repeated one is not cleared
updatedFeedback_noToggle(prev, applyLink, newFeedback) ==
    [k \in DOMAIN prev \cup {applyLink} |->
        IF k = applyLink THEN newFeedback ELSE prev[k]]

\* index.tsx 688-698: the state updater of handleJobFeedback
updatedFeedback(prev, applyLink, newFeedback) ==
    IF applyLink \in DOMAIN prev /\ prev[applyLink] = newFeedback
    THEN [k \in DOMAIN prev \ {applyLink} |-> prev[k]]
    ELSE [k \in DOMAIN prev \cup {applyLink} |->
            IF k = applyLink THEN newFeedback ELSE prev[k]]

\* index.tsx 686-699
handleJobFeedback(jobToUpdate, newFeedback) ==
    /\ jobFeedback' = updatedFeedback(jobFeedback, jobToUpdate.applyLink, newFeedback)
    /\ UNCHANGED <<confVars, prompt, uploadVars, authVars, savedVars, error, currentView, step,
                   resumeText,
                   analysisResult, jobsResult, isFindingMoreJobs, ioVars, p2Vars>>

\* ------------------------------------------------------------------ index.tsx: file upload
\* A chosen file: its name as the parts that '.' separates, and the text an
\* extraction reads from it
File(name, text) == [name |-> name, text |-> text]

Files ==
    {File(<<"cv", "txt">>, "txt text"), File(<<"notes", "md">>, "md text"),
     File(<<"cv", "PDF">>, "pdf text"), File(<<"cv", "docx">>, "docx text"),
     File(<<"cv", "exe">>, "exe text"), File(<<"resume">>, "plain text")}

\* String.prototype.toLowerCase on the last parts of the names
ToLowerCase(part) == IF part = "PDF" THEN "pdf" ELSE part

\* index.tsx 390: file.name.split('.').pop()?.toLowerCase()
Extension(file) == ToLowerCase(file.name[Len(file.name)])

UnsupportedMessage == "Unsupported file type. Please upload a .txt, .md, .pdf, or .docx file."

\* an extraction that throws: the message of the Error, or the fallback text
ReadFailures ==
    {"The requested file could not be read.", "Failed to read the file. Please try another file."}

\* index.tsx 394-422: the preview of a file by its extension
Preview(file) ==
    CASE Extension(file) = "txt"  -> [content |-> <<"text", file.text>>, type |-> "text"]
      [] Extension(file) = "md"   -> [content |-> <<"html", file.text>>, type |-> "html"]
      [] Extension(file) = "docx" -> [content |-> <<"html", file.text>>, type |-> "html"]
      [] Extension(file) = "pdf"  -> [content |-> <<"arrayBuffer", file.text>>, type |-> "pdf"]

\* index.tsx 366-375
clearFile ==
    /\ resumeText' = ""
    /\ previewContent' = NoContent
    /\ previewType' = NoType
    /\ uploadedFileName' = NoName
    /\ UNCHANGED <<confVars, prompt, uploads, authVars, savedVars, error, currentView, step,
                   analysisResult, jobsResult, isFindingMoreJobs, jobFeedback, ioVars, p2Vars>>

\* index.tsx 378-392, the handler up to its first await
handleFileChange(file) ==
    /\ BagCardinality(uploads) < MaxUploads
    /\ error' = NoError
    /\ resumeText' = ""
    /\ previewContent' = NoContent
    /\ previewType' = NoType
    /\ uploadedFileName' = file.name
    /\ uploads' = uploads (+) SetToBag({file})
    /\ UNCHANGED <<confVars, prompt, authVars, savedVars, currentView, step, analysisResult,
                   jobsResult, isFindingMoreJobs, jobFeedback, ioVars, p2Vars>>

\* index.tsx 394, 402, 408: the extensions that have a branch
Accepted(file) == Extension(file) \in {"txt", "md", "pdf", "docx"}

\* index.tsx 394-427: every await of the extraction resolved; the preview and
\* the text are set in the continuation of the last one
fileResolved(file) ==
    /\ app = "index" /\ BagIn(file, uploads)
    /\ uploads' = uploads (-) SetToBag({file})
    /\ IF Accepted(file)
       THEN /\ previewContent' = Preview(file).content
            /\ previewType' = Preview(file).type
            /\ resumeText' = file.text
            /\ UNCHANGED <<error, uploadedFileName>>
       ELSE /\ error' = UnsupportedMessage
            /\ uploadedFileName' = NoName
            /\ UNCHANGED <<previewContent, previewType, resumeText>>
    /\ UNCHANGED <<confVars, prompt, authVars, savedVars, currentView, step, analysisResult,
                   jobsResult, isFindingMoreJobs, jobFeedback, ioVars, p2Vars>>

\* index.tsx 392-433: an await of the extraction rejected (file.arrayBuffer, the
\* parsers): the catch block
fileRejected(file, message) ==
    /\ app = "index" /\ BagIn(file, uploads)
    /\ uploads' = uploads (-) SetToBag({file})
    /\ error' = message
    /\ uploadedFileName' = NoName
    /\ UNCHANGED <<confVars, prompt, previewContent, previewType, authVars, savedVars,
                   currentView, flowVars, ioVars, p2Vars>>

\* ------------------------------------------------------------------ index.tsx: the controls
\* A control's action is its handler, enabled when the committed render offers
\* the control (index.tsx 778-1008).
\* index.tsx 946-953: the textarea that can be typed in is rendered when no file
\* name is shown
TypeResume(text) ==
    /\ app = "index" /\ MainShown /\ step = "input" /\ uploadedFileName = NoName
    /\ text # resumeText
    /\ setResumeText(text)

ClickAnalyze == app = "index" /\ MainShown /\ step = "input" /\ handleAnalyze

ClickFindJobs == app = "index" /\ ProfileFormShown /\ handleFindJobs

\* Mutant: the Find More button is not disabled while a request is pending
ClickFindMore_enabled ==
    /\ app = "index" /\ MainShown /\ step = "jobs_result" /\ jobsResult # null
    /\ handleFindMoreJobs

ClickFindMore ==
    /\ app = "index" /\ MainShown /\ step = "jobs_result" /\ jobsResult # null
    /\ ~isFindingMoreJobs
    /\ handleFindMoreJobs

ClickFeedback(job, fb) == app = "index" /\ ResultCardShown(job) /\ handleJobFeedback(job, fb)

ClickToggleSave(job) ==
    app = "index" /\ (ResultCardShown(job) \/ SavedCardShown(job)) /\ toggleSaveJob(job)

EditProfile(name, value) ==
    /\ app = "index" /\ ProfileFormShown /\ userProfile[name] # value
    /\ handleProfileChange(name, value)

ClickSaveProfile == app = "index" /\ SaveProfileEnabled /\ handleSaveProfile

\* index.tsx 955-966: the Upload Resume button and the file input
ClickUpload(file) == app = "index" /\ MainShown /\ step = "input" /\ handleFileChange(file)

\* index.tsx 931
ClickClearFile ==
    app = "index" /\ MainShown /\ step = "input" /\ uploadedFileName # NoName /\ clearFile

ClickSaved == app = "index" /\ SavedButtonShown /\ setCurrentView("saved_jobs")

ClickBack == app = "index" /\ currentView = "saved_jobs" /\ setCurrentView("main")

\* ------------------------------------------------------------------ part_002: the earlier App
\* part_002 keeps the analyses of a user in the "analyses" collection and has no
\* saved jobs, no profile, no find-more. Its state is user, authLoading, step,
\* resumeText, analysisResult, jobsResult, analysisHistory and error; the other
\* variables keep their initial values. An await of part_002 is a task in the
\* bag tasks, holding what the continuation's closure captured.
indexOnlyVars ==
    <<isAuthLoading, savedVars, currentView, isFindingMoreJobs, jobFeedback, ioVars>>

\* firebase.ts 25-52: the error initializeFirebase returns
firebaseError ==
    IF firebaseInitialized THEN NoError
    ELSE "Firebase initialization failed, likely due to an invalid configuration."

\* part_002 416, 457: firebaseError ? `${firebaseError}\n${e}` : e
WithFirebaseError(message) ==
    IF firebaseError # NoError THEN firebaseError \o "\n" \o message ELSE message

\* The "analyses" collection when the page loads: empty, or one analysis of u1
StoredAnalysis(data, n) == Spread(data, [createdAt |-> n])

\* part_002 406: collection.add(data) stores data as a new document with an id
\* of its own (createdAt is the time of the call, here the document's number)
Add(collection, data) == Append(collection, StoredAnalysis(data, Len(collection) + 1))

InitialAnalyses == {<<>>, <<StoredAnalysis(Spread(A1, [userId |-> "u1"]), 1)>>}

\* part_002 230-237: the useState initial values, after the mount effect
\* (245-248) has lowered authLoading where firebase is absent
InitLegacy ==
    /\ app = "part_002"
    /\ issued = [k \in EventKinds |-> 0]
    /\ firebaseInitialized \in BOOLEAN
    /\ user = null
    /\ authLoading = firebaseInitialized
    /\ step = "input"
    /\ resumeText = ""
    /\ analysisResult = null
    /\ jobsResult = null
    /\ analysisHistory = <<>>
    /\ error = firebaseError
    /\ analyses \in InitialAnalyses
    /\ ~firebaseInitialized => analyses = <<>>
    /\ tasks = EmptyBag
    /\ isAuthLoading = TRUE
    /\ savedJobs = <<>>
    /\ userProfile = defaultUserProfile
    /\ profileSaved = FALSE
    /\ currentView = "main"
    /\ isFindingMoreJobs = FALSE
    /\ jobFeedback = <<>>
    /\ store = [u \in Uids |-> null]
    /\ InitIO

Awaiting(t) == app = "part_002" /\ BagIn(t, tasks)

Spawn(t) == tasks (+) SetToBag({t})

Settle(t) == tasks (-) SetToBag({t})

TaskKinds(kind) == {t \in BagToSet(tasks) : t.kind = kind}

\* part_002 477
isLoading == step \in {"analyzing", "finding_jobs"} \/ (authLoading /\ firebaseInitialized)

\* part_002 550-684: which controls the committed render offers
P2_MainShown == ~authLoading /\ (~firebaseInitialized \/ user # null)

P2_InputShown == P2_MainShown /\ step \in {"input", "analyzing"} /\ analysisResult = null

P2_ResultsShown ==
    /\ P2_MainShown
    /\ step \in {"analysis_result", "finding_jobs", "jobs_result"}
    /\ analysisResult # null

P2_HistoryShown ==
    /\ P2_MainShown /\ Len(analysisHistory) > 0 /\ firebaseInitialized
    /\ step = "input" /\ analysisResult = null

\* part_002 469-475
P2_handleStartOver ==
    /\ step' = "input"
    /\ resumeText' = ""
    /\ analysisResult' = null
    /\ jobsResult' = null
    /\ error' = firebaseError

\* part_002 293-306: the user's analyses, newest first, each with its document id
RECURSIVE Reverse(_)
Reverse(s) == IF s = <<>> THEN <<>> ELSE Append(Reverse(Tail(s)), Head(s))

History(uid) ==
    Reverse(SelectSeq([n \in DOMAIN analyses |-> Spread(analyses[n], [id |-> n])],
                      LAMBDA item : item.userId = uid))

\* part_002 250-261, the listener up to its await
P2_onAuthStateChanged(currentUser) ==
    /\ user' = currentUser
    /\ IF currentUser # null
       THEN /\ BagCardinality(tasks) < MaxTasks
            /\ tasks' = Spawn([kind |-> "get", uid |-> currentUser.uid, for |-> "auth"])
            /\ UNCHANGED <<authLoading, analysisHistory, flowVars, error>>
       ELSE /\ analysisHistory' = <<>>
            /\ P2_handleStartOver
            /\ authLoading' = FALSE
            /\ UNCHANGED <<tasks, isFindingMoreJobs, jobFeedback>>

\* The auth collaborator fires the listener once at startup and on every change
\* of the signed-in user.
P2_AuthStateChanged(currentUser) ==
    /\ app = "part_002" /\ auth
    /\ ~authReady \/ ((user = null) # (currentUser = null))
    /\ authReady' = TRUE
    /\ P2_onAuthStateChanged(currentUser)
    /\ UNCHANGED <<confVars, prompt, uploadVars, isAuthLoading, savedVars, currentView, ioVars,
                   analyses>>

\* part_002 296-307, 260: q.get() resolved
historyResolved(t) ==
    /\ Awaiting(t) /\ t.kind = "get"
    /\ tasks' = Settle(t)
    /\ analysisHistory' = History(t.uid)
    /\ authLoading' = IF t.for = "auth" THEN FALSE ELSE authLoading
    /\ UNCHANGED <<confVars, prompt, uploadVars, authVars, savedVars, error, currentView,
                   flowVars, ioVars,
                   analyses>>

\* part_002 308-311, 260: q.get() rejected
historyRejected(t) ==
    /\ Awaiting(t) /\ t.kind = "get"
    /\ tasks' = Settle(t)
    /\ error' = "Could not load your analysis history."
    /\ authLoading' = IF t.for = "auth" THEN FALSE ELSE authLoading
    /\ UNCHANGED <<confVars, prompt, uploadVars, authVars, savedVars, currentView, flowVars, ioVars,
                   analysisHistory, analyses>>

\* part_002 362-371, the handler up to its await
P2_handleAnalyze ==
    /\ Trim(resumeText) # ""
    /\ IF firebaseInitialized /\ user = null
       THEN /\ error' = "Please sign in to analyze and save your results."
            /\ UNCHANGED <<step, analysisResult, tasks>>
       ELSE /\ BagCardinality(tasks) < MaxTasks
            /\ step' = "analyzing"
            /\ error' = firebaseError
            /\ analysisResult' = null
            /\ tasks' = Spawn([kind |-> "generate", user |-> user])
    /\ UNCHANGED <<confVars, prompt, uploadVars, authVars, savedVars, currentView, resumeText,
                   jobsResult,
                   isFindingMoreJobs, jobFeedback, ioVars, analysisHistory, authLoading,
                   analyses>>

\* part_002 413-418: the catch block of handleAnalyze
P2_analyzeCatch(message) ==
    /\ error' = WithFirebaseError("Analysis failed: " \o message \o ".")
    /\ step' = "input"

\* part_002 399-412: generateContent resolved with text; the analysis is shown
\* and, for a signed-in user, add() is issued
generateResolved(t, text) ==
    /\ Awaiting(t) /\ t.kind = "generate"
    /\ LET r == JSONParse(text) IN
         IF ~r.ok
         THEN /\ P2_analyzeCatch(r.message)
              /\ tasks' = Settle(t)
              /\ UNCHANGED analysisResult
         ELSE LET resultJson == IF r.value.t = "null" THEN null ELSE r.value.fields IN
              /\ analysisResult' = resultJson
              /\ step' = "analysis_result"
              /\ UNCHANGED error
              /\ tasks' =
                   IF firebaseInitialized /\ t.user # null /\ db
                   THEN Settle(t) (+) SetToBag({[kind |-> "add", uid |-> t.user.uid,
                            data |-> Spread(IF resultJson = null THEN <<>> ELSE resultJson,
                                            [userId |-> t.user.uid])]})
                   ELSE Settle(t)
    /\ UNCHANGED <<confVars, prompt, uploadVars, authVars, savedVars, currentView, resumeText,
                   jobsResult,
                   isFindingMoreJobs, jobFeedback, ioVars, analysisHistory, authLoading,
                   analyses>>

\* part_002 393-397, 413-418: generateContent rejected
generateRejected(t) ==
    /\ Awaiting(t) /\ t.kind = "generate"
    /\ tasks' = Settle(t)
    /\ P2_analyzeCatch("fetch failed")
    /\ UNCHANGED <<confVars, prompt, uploadVars, authVars, savedVars, currentView, resumeText,
                   analysisResult,
                   jobsResult, isFindingMoreJobs, jobFeedback, ioVars, analysisHistory,
                   authLoading, analyses>>

\* part_002 406-411: add() resolved, the history is fetched again
addResolved(t) ==
    /\ Awaiting(t) /\ t.kind = "add"
    /\ Len(analyses) < MaxDocs
    /\ analyses' = Add(analyses, t.data)
    /\ tasks' = Settle(t) (+) SetToBag({[kind |-> "get", uid |-> t.uid, for |-> "analyze"]})
    /\ UNCHANGED <<confVars, prompt, uploadVars, authVars, savedVars, error, currentView,
                   flowVars, ioVars,
                   analysisHistory, authLoading>>

\* part_002 406-410, 413-418: add() rejected, inside the try of handleAnalyze
addRejected(t) ==
    /\ Awaiting(t) /\ t.kind = "add"
    /\ tasks' = Settle(t)
    /\ P2_analyzeCatch("Missing or insufficient permissions")
    /\ UNCHANGED <<confVars, prompt, uploadVars, authVars, savedVars, currentView, resumeText,
                   analysisResult,
                   jobsResult, isFindingMoreJobs, jobFeedback, ioVars, analysisHistory,
                   authLoading, analyses>>

\* part_002 428-432: the prompt of the earlier App's search; request is what
\* line 428 asks for (the role and skill lines are left out)
P2_prompt == [request |-> [count |-> AtLeast(20), region |-> "India"]]

\* part_002 421-432, the handler up to its await
P2_handleFindJobs ==
    /\ analysisResult # null
    /\ BagCardinality(tasks) < MaxTasks
    /\ step' = "finding_jobs"
    /\ error' = firebaseError
    /\ jobsResult' = null
    /\ tasks' = Spawn([kind |-> "search"])
    /\ prompt' = P2_prompt
    /\ UNCHANGED <<confVars, uploadVars, authVars, savedVars, currentView, resumeText,
                   analysisResult,
                   isFindingMoreJobs, jobFeedback, ioVars, analysisHistory, authLoading,
                   analyses>>

\* part_002 454-459: the catch block of handleFindJobs
P2_findJobsCatch(message) ==
    /\ error' = WithFirebaseError("Job search failed: " \o message \o ".")
    /\ step' = "analysis_result"

\* groundingChunks of a response (part_002 440)
GroundingChunks == {<<>>, <<[web |-> "uri"]>>}

\* part_002 440-459: generateContent resolved with text and groundingChunks
P2_findJobsResolved(text, groundingChunks) ==
    /\ Awaiting([kind |-> "search"])
    /\ tasks' = Settle([kind |-> "search"])
    /\ LET r == ParseJobs(text) IN
         IF r.ok
         THEN /\ jobsResult' = [jobs |-> r.jobs, sources |-> groundingChunks]
              /\ step' = "jobs_result"
              /\ UNCHANGED error
         ELSE /\ P2_findJobsCatch(r.message)
              /\ UNCHANGED jobsResult
    /\ UNCHANGED <<confVars, prompt, uploadVars, authVars, savedVars, currentView, resumeText,
                   analysisResult,
                   isFindingMoreJobs, jobFeedback, ioVars, analysisHistory, authLoading,
                   analyses>>

\* part_002 434-438, 454-459: generateContent rejected
P2_findJobsRejected ==
    /\ Awaiting([kind |-> "search"])
    /\ tasks' = Settle([kind |-> "search"])
    /\ P2_findJobsCatch("fetch failed")
    /\ UNCHANGED <<confVars, prompt, uploadVars, authVars, savedVars, currentView, resumeText,
                   analysisResult,
                   jobsResult, isFindingMoreJobs, jobFeedback, ioVars, analysisHistory,
                   authLoading, analyses>>

\* part_002 462-467
P2_handleHistoryItemClick(item) ==
    /\ analysisResult' = item
    /\ step' = "analysis_result"
    /\ jobsResult' = null
    /\ error' = firebaseError
    /\ UNCHANGED <<confVars, prompt, uploadVars, authVars, savedVars, currentView, resumeText,
                   isFindingMoreJobs, jobFeedback, ioVars, p2Vars>>

\* part_002 318-347: the handler up to its first await; an extension without a
\* branch throws before any await, so the catch block runs in the same step
P2_handleFileChange(file) ==
    /\ resumeText' = ""
    /\ IF Accepted(file)
       THEN /\ BagCardinality(uploads) < MaxUploads
            /\ error' = firebaseError
            /\ uploads' = uploads (+) SetToBag({file})
       ELSE /\ error' = UnsupportedMessage
            /\ UNCHANGED uploads
    /\ UNCHANGED <<confVars, prompt, uploadedFileName, previewContent, previewType, authVars,
                   savedVars, currentView, step, analysisResult, jobsResult, isFindingMoreJobs,
                   jobFeedback, ioVars, p2Vars>>

\* part_002 329-350: every await of the extraction resolved
P2_fileResolved(file) ==
    /\ app = "part_002" /\ BagIn(file, uploads)
    /\ uploads' = uploads (-) SetToBag({file})
    /\ resumeText' = file.text
    /\ UNCHANGED <<confVars, prompt, uploadedFileName, previewContent, previewType, authVars,
                   savedVars, error, currentView, step, analysisResult, jobsResult,
                   isFindingMoreJobs, jobFeedback, ioVars, p2Vars>>

\* part_002 352-356: an await of the extraction rejected
P2_fileRejected(file, message) ==
    /\ app = "part_002" /\ BagIn(file, uploads)
    /\ uploads' = uploads (-) SetToBag({file})
    /\ error' = message
    /\ UNCHANGED <<confVars, prompt, uploadedFileName, previewContent, previewType, authVars,
                   savedVars, currentView, flowVars, ioVars, p2Vars>>

\* part_002 564
P2_ClickUpload(file) ==
    app = "part_002" /\ P2_InputShown /\ ~isLoading /\ P2_handleFileChange(file)

\* part_002 555-559: the textarea
P2_TypeResume(text) ==
    /\ app = "part_002" /\ P2_InputShown /\ ~isLoading /\ text # resumeText
    /\ setResumeText(text)

\* part_002 568
P2_ClickAnalyze ==
    app = "part_002" /\ P2_InputShown /\ ~isLoading /\ P2_handleAnalyze

\* part_002 610
P2_ClickFindJobs ==
    app = "part_002" /\ P2_ResultsShown /\ ~isLoading /\ P2_handleFindJobs

\* part_002 613
P2_ClickStartOver ==
    /\ app = "part_002" /\ P2_ResultsShown /\ ~isLoading
    /\ P2_handleStartOver
    /\ UNCHANGED <<confVars, prompt, uploadVars, authVars, savedVars, currentView,
                   isFindingMoreJobs,
                   jobFeedback, ioVars, p2Vars>>

\* part_002 672-681
P2_ClickHistoryItem(item) ==
    /\ app = "part_002" /\ P2_HistoryShown /\ item \in Range(analysisHistory)
    /\ P2_handleHistoryItemClick(item)

\* ------------------------------------------------------------------ specifications
\* An event of kind k, of which a behaviour has at most max
Count(k, max, A) == issued[k] < max /\ issued' = [issued EXCEPT ![k] = @ + 1] /\ A

\* A step that is no counted event
Free(A) == UNCHANGED issued /\ A

\* Inputs of the session specification: one resume, one analysis, one job list
\* that shows every job, two profile edits.
SessionJobsText == <<Open, JsonText(JsonObject([jobs |-> <<J1, J1b, J2>>])), Close>>

ProfileEdits == {<<"preferredTitles", "QA">>, <<"jobAlertsEnabled", TRUE>>}

AuthNext ==
    \/ \E u \in {null} \cup {User(uid) : uid \in Uids} :
          Count("auth", MaxAuthEvents, AuthStateChanged(u))
    \/ \E uid \in Uids : Free(getDocExists(uid))
    \/ \E uid \in Uids : Free(getDocMissing(uid))
    \/ \E uid \in Uids : Free(getDocRejected(uid))
    \/ Free(createDocResolved)
    \/ Free(createDocRejected)

SavedNext ==
    \/ \E job \in Jobs : Count("op", MaxUserOps, ClickToggleSave(job))
    \/ Free(saveJobResolved)
    \/ Free(saveJobRejected)
    \/ Free(ClickSaved)
    \/ Free(ClickBack)

ProfileNext ==
    \/ \E e \in ProfileEdits : Count("op", MaxUserOps, EditProfile(e[1], e[2]))
    \/ Count("op", MaxUserOps, ClickSaveProfile)
    \/ Free(saveProfileResolved)
    \/ Free(saveProfileRejected)
    \/ Free(profileSavedTimeout)

\* the shortest way through the flow to the profile form and the job cards
ReachNext ==
    \/ Free(TypeResume("cv"))
    \/ Free(ClickAnalyze)
    \/ Free(analyzeResolved(<<JsonText(JsonObject(A1))>>))
    \/ Free(ClickFindJobs)
    \/ Free(findJobsResolved(SessionJobsText))

SessionNext == AuthNext \/ SavedNext \/ ProfileNext \/ ReachNext

\* The main app's session: auth events, profile loads, save-toggles, profile saves
SpecSession == InitIndex /\ [][SessionNext]_vars

\* One response text for every outcome of ParseJobs: a settled search reads its
\* text through ParseJobs alone, so these texts give every step that any text
\* of JobTexts gives.
FlowJobTexts == {CHOOSE t \in JobTexts : ParseJobs(t) = r : r \in {ParseJobs(t) : t \in JobTexts}}

FlowNext ==
    \/ \E text \in ResumeTexts : Free(TypeResume(text))
    \/ Free(ClickAnalyze)
    \/ \E text \in AnalysisTexts : Free(analyzeResolved(text))
    \/ Free(analyzeRejected)
    \/ Free(ClickFindJobs)
    \/ \E text \in FlowJobTexts : Free(findJobsResolved(text))
    \/ Free(findJobsRejected)
    \/ Free(ClickFindMore)
    \/ \E text \in FlowJobTexts : Free(findMoreResolved(text))
    \/ Free(findMoreRejected)
    \/ \E job \in Jobs, fb \in {"like", "dislike"} : Free(ClickFeedback(job, fb))

\* The main app's flow: analysis, first search, find-more, feedback
SpecFlow == InitIndex /\ [][FlowNext]_vars

\* Every model call eventually settles: a pending generateContent promise of
\* each kind is resolved or rejected
AnalyzeSettles == Free(analyzeRejected) \/ \E text \in AnalysisTexts : Free(analyzeResolved(text))

FindJobsSettles ==
    Free(findJobsRejected) \/ \E text \in FlowJobTexts : Free(findJobsResolved(text))

FindMoreSettles ==
    Free(findMoreRejected) \/ \E text \in FlowJobTexts : Free(findMoreResolved(text))

SpecFlowFair ==
    /\ SpecFlow
    /\ WF_vars(AnalyzeSettles) /\ WF_vars(FindJobsSettles) /\ WF_vars(FindMoreSettles)

\* part_002 only shows the jobs of a response: one job list is enough there
LegacyJobTexts ==
    SeqsUpTo({Open, Close, Prose, JsonText(JsonObject([jobs |-> <<J1>>]))}, MaxTextLen)

\* One of these texts for every outcome of ParseJobs
LegacyOutcomeTexts ==
    {CHOOSE t \in LegacyJobTexts : ParseJobs(t) = r : r \in {ParseJobs(t) : t \in LegacyJobTexts}}

LegacyNext ==
    \/ \E u \in {null} \cup {User(uid) : uid \in Uids} :
          Count("auth", MaxAuthEvents, P2_AuthStateChanged(u))
    \/ \E t \in TaskKinds("get") : Free(historyResolved(t))
    \/ \E t \in TaskKinds("get") : Free(historyRejected(t))
    \/ Free(P2_TypeResume("cv"))
    \/ Free(P2_ClickAnalyze)
    \/ \E t \in TaskKinds("generate"), text \in AnalysisTexts : Free(generateResolved(t, text))
    \/ \E t \in TaskKinds("generate") : Free(generateRejected(t))
    \/ \E t \in TaskKinds("add") : Free(addResolved(t))
    \/ \E t \in TaskKinds("add") : Free(addRejected(t))
    \/ Free(P2_ClickFindJobs)
    \/ \E text \in LegacyOutcomeTexts, g \in GroundingChunks :
          Free(P2_findJobsResolved(text, g))
    \/ Free(P2_findJobsRejected)
    \/ Count("op", MaxUserOps, P2_ClickStartOver)
    \/ \E item \in Range(analysisHistory) : Free(P2_ClickHistoryItem(item))

\* The earlier App: auth events, history, analysis with persistence, search
SpecLegacy == InitLegacy /\ [][LegacyNext]_vars

\* The handlers of the profile form called in any state of the session, whether
\* or not the render offers their control: the Save Profile button is disabled
\* while signed out (index.tsx 871), the handler checks again (647).
InitHandlers ==
    /\ app = "index"
    /\ issued = [k \in EventKinds |-> 0]
    /\ firebaseInitialized \in BOOLEAN
    /\ user \in {null} \cup {User(uid) : uid \in Uids}
    /\ ~firebaseInitialized => user = null
    /\ isAuthLoading = FALSE
    /\ store \in InitialStores
    /\ ~firebaseInitialized => store = [u \in Uids |-> null]
    /\ savedJobs = <<>>
    /\ userProfile \in {defaultUserProfile,
                        [defaultUserProfile EXCEPT !.preferredTitles = "QA"]}
    /\ profileSaved \in BOOLEAN
    /\ profileSaved => firebaseInitialized
    /\ error \in {NoError, "Could not load your profile data."}
    /\ currentView = "main"
    /\ step = "analysis_result"
    /\ resumeText = "cv"
    /\ analysisResult = A1
    /\ jobsResult = null
    /\ isFindingMoreJobs = FALSE
    /\ jobFeedback = <<>>
    /\ reads = [u \in Uids |-> 0]
    /\ writes = <<>>
    /\ timers = IF profileSaved THEN 1 ELSE 0
    /\ calls = [k \in {"analyze", "findJobs", "findMore"} |-> 0]
    /\ prompt = null
    /\ InitUpload
    /\ authReady = firebaseInitialized
    /\ InitP2Idle

HandlersNext ==
    \/ \E e \in ProfileEdits : Count("op", MaxUserOps, handleProfileChange(e[1], e[2]))
    \/ Count("op", MaxUserOps, handleSaveProfile)
    \/ Free(saveProfileResolved)
    \/ Free(saveProfileRejected)
    \/ Free(profileSavedTimeout)

SpecHandlers == InitHandlers /\ [][HandlersNext]_vars

\* Inputs of the prompt specification: profiles with each of the five fields
\* empty or filled, alerts off or on, job lists with a repeated applyLink
PromptProfiles ==
    {[defaultUserProfile EXCEPT !.preferredTitles = t, !.minSalary = lo, !.maxSalary = hi,
                                !.careerGoals = g, !.locationPreference = l] :
        t \in {"", "QA"}, lo \in {"", "0", "50000"}, hi \in {"", "1200000"},
        g \in {"", "Lead"}, l \in {"", "Pune"}}
    \cup
    {[defaultUserProfile EXCEPT !.preferredTitles = t, !.jobAlertsEnabled = TRUE,
                                !.jobAlertsFrequency = f] :
        t \in {"", "QA"}, f \in {"daily", "weekly"}}

PromptJobLists == {<<>>, <<J1, J2>>, <<J1, J1b>>}

PromptSavedLists == {<<>>, <<J1>>, <<J2, J1b>>}

PromptJobTexts ==
    {<<Prose>>} \cup
    {<<Open, JsonText(JsonObject([jobs |-> l])), Close>> : l \in {<<J1>>, <<J1b, J2>>}}

\* the reactions a user may have given to the jobs of a list
FeedbackMaps(jobs) ==
    UNION {[S -> {"like", "dislike"}] : S \in SUBSET {j.applyLink : j \in Range(jobs)}}

\* States of a signed-in session whose stored profile and saved jobs are loaded,
\* with the analysis shown (no jobs, no reactions yet) or with the jobs of a
\* search shown, some of them reacted to
InitPrompt ==
    /\ app = "index"
    /\ issued = [k \in EventKinds |-> 0]
    /\ firebaseInitialized = TRUE
    /\ user = User("u1")
    /\ isAuthLoading = FALSE
    /\ savedJobs \in PromptSavedLists
    /\ userProfile \in PromptProfiles
    /\ store = [u \in Uids |-> IF u = "u1"
                               THEN [savedJobs |-> savedJobs, userProfile |-> userProfile]
                               ELSE null]
    /\ profileSaved = FALSE
    /\ error = NoError
    /\ currentView = "main"
    /\ resumeText = "cv"
    /\ analysisResult = A1
    /\ isFindingMoreJobs = FALSE
    /\ \/ /\ step = "analysis_result"
          /\ jobsResult = null
          /\ jobFeedback = <<>>
          /\ prompt = null
       \/ /\ step = "jobs_result"
          /\ \E l \in PromptJobLists : jobsResult = [jobs |-> l]
          /\ jobFeedback \in FeedbackMaps(jobsResult.jobs)
          /\ prompt = generateJobSearchPrompt(FALSE, <<>>, <<>>, savedJobs)
    /\ reads = [u \in Uids |-> 0]
    /\ writes = <<>>
    /\ timers = 0
    /\ calls = [k \in {"analyze", "findJobs", "findMore"} |-> 0]
    /\ authReady = TRUE
    /\ InitUpload
    /\ InitP2Idle

PromptNext ==
    \/ Free(ClickFindJobs)
    \/ \E text \in PromptJobTexts : Free(findJobsResolved(text))
    \/ Free(findJobsRejected)
    \/ Free(ClickFindMore)
    \/ \E text \in PromptJobTexts : Free(findMoreResolved(text))
    \/ Free(findMoreRejected)
    \/ \E job \in Jobs, fb \in {"like", "dislike"} : Free(ClickFeedback(job, fb))

\* The job-search prompt over the profiles, job lists, reactions and saved jobs
SpecPrompt == InitPrompt /\ [][PromptNext]_vars

\* The earlier App from sign-in to the search of one analysis
LegacySearchNext ==
    \/ \E u \in {null} \cup {User(uid) : uid \in Uids} :
          Count("auth", MaxAuthEvents, P2_AuthStateChanged(u))
    \/ \E t \in TaskKinds("get") : Free(historyResolved(t))
    \/ \E t \in TaskKinds("get") : Free(historyRejected(t))
    \/ Free(P2_TypeResume("cv"))
    \/ Free(P2_ClickAnalyze)
    \/ \E t \in TaskKinds("generate") : Free(generateResolved(t, <<JsonText(JsonObject(A1))>>))
    \/ \E t \in TaskKinds("add") : Free(addResolved(t))
    \/ Free(P2_ClickFindJobs)
    \/ \E text \in LegacyOutcomeTexts : Free(P2_findJobsResolved(text, <<>>))
    \/ Free(P2_findJobsRejected)

\* The searches of both apps: the main app's flow and the earlier App's search
SpecSearches == (InitIndex \/ InitLegacy) /\ [][FlowNext \/ LegacySearchNext]_vars

\* File uploads in the input step of both apps: choosing files, the settling of
\* their extractions in any order, typing, clearing, and an analysis around them
UploadNext ==
    \/ \E file \in Files : Count("op", MaxUserOps, ClickUpload(file))
    \/ \E file \in Files : Free(fileResolved(file))
    \/ \E file \in Files, message \in ReadFailures : Free(fileRejected(file, message))
    \/ Free(ClickClearFile)
    \/ \E text \in ResumeTexts : Free(TypeResume(text))
    \/ Free(ClickAnalyze)
    \/ \E text \in AnalysisTexts : Free(analyzeResolved(text))
    \/ Free(analyzeRejected)

LegacyUploadNext ==
    \/ \E u \in {null} \cup {User(uid) : uid \in Uids} :
          Count("auth", MaxAuthEvents, P2_AuthStateChanged(u))
    \/ \E file \in Files : Count("op", MaxUserOps, P2_ClickUpload(file))
    \/ \E file \in Files : Free(P2_fileResolved(file))
    \/ \E file \in Files, message \in ReadFailures : Free(P2_fileRejected(file, message))
    \/ Free(P2_TypeResume("cv"))

SpecUploads == (InitIndex \/ InitLegacy) /\ [][UploadNext \/ LegacyUploadNext]_vars

\* A first response of two jobs and a find-more response of one more, so that
\* the accumulated list stays within MaxJobs
FirstJobsText == <<Open, JsonText(JsonObject([jobs |-> <<J1, J2>>])), Close>>

MoreJobsText == <<Open, JsonText(JsonObject([jobs |-> <<J1b>>])), Close>>

\* Reactions on job cards across sign-ins and sign-outs, and the find-more
\* requests that read them
FeedbackNext ==
    \/ AuthNext
    \/ Free(TypeResume("cv"))
    \/ Free(ClickAnalyze)
    \/ Free(analyzeResolved(<<JsonText(JsonObject(A1))>>))
    \/ Free(ClickFindJobs)
    \/ Free(findJobsResolved(FirstJobsText))
    \/ \E job \in {J1, J2}, fb \in {"like", "dislike"} : Free(ClickFeedback(job, fb))
    \/ Free(ClickFindMore)
    \/ Free(findMoreResolved(MoreJobsText))
    \/ Free(findMoreRejected)

SpecFeedback == InitIndex /\ [][FeedbackNext]_vars

\* The earlier App's analysis with its persistence
LegacyPersistNext ==
    \/ \E u \in {null} \cup {User(uid) : uid \in Uids} :
          Count("auth", MaxAuthEvents, P2_AuthStateChanged(u))
    \/ \E t \in TaskKinds("get") : Free(historyResolved(t))
    \/ \E t \in TaskKinds("get") : Free(historyRejected(t))
    \/ Free(P2_TypeResume("cv"))
    \/ Free(P2_ClickAnalyze)
    \/ \E t \in TaskKinds("generate") : Free(generateResolved(t, <<JsonText(JsonObject(A1))>>))
    \/ \E t \in TaskKinds("generate") : Free(generateRejected(t))
    \/ \E t \in TaskKinds("add") : Free(addResolved(t))
    \/ \E t \in TaskKinds("add") : Free(addRejected(t))

\* The store writes of both apps: the main app's session and the earlier App's
\* persistence of analyses
SpecStores == (InitIndex \/ InitLegacy) /\ [][SessionNext \/ LegacyPersistNext]_vars

\* Every kind of event of the main app in one behaviour, each with one input:
\* auth events of u1, the profile load, a save-toggle, a profile edit and save,
\* the flow with its failures, a reaction, find-more and uploads
AppFiles == {File(<<"cv", "txt">>, "txt text")}

AppNext ==
    \/ \E u \in {null, User("u1")} : Count("auth", MaxAuthEvents, AuthStateChanged(u))
    \/ Free(getDocExists("u1"))
    \/ Free(getDocMissing("u1"))
    \/ Free(getDocRejected("u1"))
    \/ Free(createDocResolved)
    \/ Free(createDocRejected)
    \/ Count("op", MaxUserOps, ClickToggleSave(J1))
    \/ Free(saveJobResolved)
    \/ Free(saveJobRejected)
    \/ Count("op", MaxUserOps, EditProfile("preferredTitles", "QA"))
    \/ Count("op", MaxUserOps, ClickSaveProfile)
    \/ Free(saveProfileResolved)
    \/ Free(saveProfileRejected)
    \/ Free(profileSavedTimeout)
    \/ \E text \in ResumeTexts : Free(TypeResume(text))
    \/ Free(ClickAnalyze)
    \/ \E text \in AnalysisTexts : Free(analyzeResolved(text))
    \/ Free(analyzeRejected)
    \/ Free(ClickFindJobs)
    \/ Free(findJobsResolved(FirstJobsText))
    \/ Free(findJobsRejected)
    \/ Free(ClickFindMore)
    \/ Free(findMoreResolved(MoreJobsText))
    \/ Free(findMoreRejected)
    \/ Count("op", MaxUserOps, ClickFeedback(J1, "like"))
    \/ \E file \in AppFiles : Count("op", MaxUserOps, ClickUpload(file))
    \/ \E file \in AppFiles : Free(fileResolved(file))
    \/ \E file \in AppFiles, message \in ReadFailures : Free(fileRejected(file, message))
    \/ Free(ClickClearFile)

SpecApp == InitIndex /\ [][AppNext]_vars

\* One signed-in user whose document is loaded and whose search has returned, as
\* sign-in, getDoc, analysis and search leave the page (index.tsx 324-333,
\* 441-478, 565-590): the job cards with their save buttons are shown
InitToggles ==
    /\ app = "index"
    /\ issued = [k \in EventKinds |-> 0]
    /\ firebaseInitialized = TRUE
    /\ user = User("u1")
    /\ isAuthLoading = FALSE
    /\ savedJobs \in {<<>>, <<J1>>}
    /\ userProfile = defaultUserProfile
    /\ store = [u \in Uids |-> IF u = "u1"
                               THEN [savedJobs |-> savedJobs, userProfile |-> userProfile]
                               ELSE null]
    /\ profileSaved = FALSE
    /\ error = NoError
    /\ currentView = "main"
    /\ step = "jobs_result"
    /\ resumeText = "cv"
    /\ analysisResult = A1
    /\ jobsResult = [jobs |-> <<J1, J1b, J2>>]
    /\ isFindingMoreJobs = FALSE
    /\ jobFeedback = <<>>
    /\ reads = [u \in Uids |-> 0]
    /\ writes = <<>>
    /\ timers = 0
    /\ calls = [k \in {"analyze", "findJobs", "findMore"} |-> 0]
    /\ prompt = generateJobSearchPrompt(FALSE, <<>>, <<>>, savedJobs)
    /\ InitUpload
    /\ authReady = TRUE
    /\ InitP2Idle

\* Save-toggles of that user, each write settling on its own
TogglesNext ==
    \/ \E job \in Jobs : Count("op", MaxUserOps, ClickToggleSave(job))
    \/ Free(saveJobResolved)
    \/ Free(saveJobRejected)
    \/ Free(ClickSaved)
    \/ Free(ClickBack)

SpecToggles == InitToggles /\ [][TogglesNext]_vars

\* Both apps' flows side by side: app tells which one a behaviour runs
SpecFlows == (InitIndex \/ InitLegacy) /\ [][FlowNext \/ LegacyNext]_vars

\* ------------------------------------------------------------------ properties
Last(s) == s[Len(s)]

\* the list s without its i-th entry
RemoveAt(s, i) == SubSeq(s, 1, i - 1) \o SubSeq(s, i + 1, Len(s))

HasLink(s, link) == \E i \in DOMAIN s : s[i].applyLink = link

\* field k of a document is what it was: absent if it was absent, equal otherwise
SameField(old, new, k) ==
    IF old = null \/ k \notin DOMAIN old
    THEN new = null \/ k \notin DOMAIN new
    ELSE new # null /\ k \in DOMAIN new /\ new[k] = old[k]

\* C1: in every reachable state of the main app the local savedJobs list holds
\* no two jobs with the same applyLink.
C1_SavedJobsDistinctLinks ==
    \A i, j \in DOMAIN savedJobs :
        savedJobs[i].applyLink = savedJobs[j].applyLink => i = j

\* C1 witness: two jobs are saved after toggles and a sign-in
C1_Witness ==
    /\ user # null /\ Len(savedJobs) = 2 /\ issued["op"] >= 1 /\ issued["auth"] >= 1

Feedbacks == {"like", "dislike"}

\* C3: handleJobFeedback with the reaction already stored for the applyLink
\* removes the key, so the same reaction applied twice to an absent key gives
\* the original map back; with another or no stored reaction it sets the key to
\* the new reaction; the other keys are unchanged; every stored value is 'like'
\* or 'dislike'.
C3_FeedbackToggle ==
    /\ [](\A k \in DOMAIN jobFeedback : jobFeedback[k] \in Feedbacks)
    /\ [][\A job \in Jobs, fb \in Feedbacks :
            handleJobFeedback(job, fb) =>
               LET k == job.applyLink IN
               /\ IF k \in DOMAIN jobFeedback /\ jobFeedback[k] = fb
                  THEN DOMAIN jobFeedback' = DOMAIN jobFeedback \ {k}
                  ELSE /\ DOMAIN jobFeedback' = DOMAIN jobFeedback \cup {k}
                       /\ jobFeedback'[k] = fb
               /\ \A o \in DOMAIN jobFeedback \ {k} : jobFeedback'[o] = jobFeedback[o]
               /\ k \notin DOMAIN jobFeedback =>
                     updatedFeedback(jobFeedback', k, fb) = jobFeedback]_vars

\* C3 witness: reactions of both kinds are stored
C3_Witness ==
    \E a, b \in DOMAIN jobFeedback : jobFeedback[a] = "like" /\ jobFeedback[b] = "dislike"

\* the response texts in which no closing fence follows an opening fence
NoFenceTexts ==
    {text \in JobTexts :
        \A i, j \in DOMAIN text : i < j => ~(text[i] = Open /\ text[j] = Close)}

\* C4: when the response holds no fenced json block a first search does not
\* reach step 'jobs_result', leaves jobsResult null and sets an error; a
\* find-more leaves the accumulated list unchanged and sets an error.
C4_NoFenceFails ==
    [][/\ (\E text \in NoFenceTexts : findJobsResolved(text)) =>
             step' # "jobs_result" /\ jobsResult' = null /\ error' # NoError
       /\ (\E text \in NoFenceTexts, g \in GroundingChunks :
               P2_findJobsResolved(text, g)) =>
             step' # "jobs_result" /\ jobsResult' = null /\ error' # NoError
       /\ (\E text \in NoFenceTexts : findMoreResolved(text)) =>
             jobsResult' = jobsResult /\ error' # NoError]_vars

\* the response texts whose first fenced block holds one object with jobs
\* missing or empty: anything without an opening fence, the block, anything
EmptyJobsTexts ==
    {text \in {pre \o <<Open, JsonText(v), Close>> \o post :
                  v \in {JsonObject(<<>>), JsonObject([jobs |-> <<>>])},
                  pre \in SeqsUpTo(JobTokens \ {Open}, MaxTextLen - 3),
                  post \in SeqsUpTo(JobTokens, MaxTextLen - 3)} :
        Len(text) <= MaxTextLen}

\* C5: a response with a valid json fence whose object has an empty or missing
\* jobs array makes the first search succeed: step becomes 'jobs_result',
\* jobsResult.jobs is the empty list and no error is set; a find-more leaves the
\* accumulated list unchanged and sets no error.
C5_EmptyJobsSucceed ==
    [][\A text \in EmptyJobsTexts :
          /\ findJobsResolved(text) =>
                /\ step' = "jobs_result"
                /\ jobsResult' = [jobs |-> <<>>]
                /\ error' = NoError
          /\ findMoreResolved(text) =>
                /\ jobsResult' = jobsResult
                /\ error' = NoError]_vars

\* C5 witness: a find-more has ended with the list of a search that found no jobs
C5_Witness ==
    /\ step = "jobs_result" /\ jobsResult = [jobs |-> <<>>] /\ error = NoError
    /\ ~isFindingMoreJobs /\ calls["findMore"] = 0 /\ jobFeedback = <<>>
    /\ app = "index"

\* C6: whenever handleAnalyze ends in its catch block, in either app, the step
\* is 'input' and analysisResult is null.
C6_FailedAnalysisRetainsNothing ==
    [][/\ \A text \in AnalysisTexts :
             (analyzeResolved(text)
                /\ (~JSONParse(text).ok \/ JSONParse(text).value.t = "null")) =>
                   step' = "input" /\ analysisResult' = null
       /\ analyzeRejected => step' = "input" /\ analysisResult' = null
       /\ \A t \in TaskKinds("generate") :
             /\ \A text \in AnalysisTexts :
                   (generateResolved(t, text) /\ ~JSONParse(text).ok) =>
                      step' = "input" /\ analysisResult' = null
             /\ generateRejected(t) => step' = "input" /\ analysisResult' = null
       /\ \A t \in TaskKinds("add") :
             addRejected(t) => step' = "input" /\ analysisResult' = null]_vars

\* C7: handleSaveProfile called while no user is signed in, or without a store
\* handle, sets the 'must be signed in' error, issues no write and leaves the
\* stored documents and profileSaved unchanged.
C7_SaveProfileSignedOut ==
    [][(handleSaveProfile /\ (user = null \/ ~db)) =>
          /\ error' = "You must be signed in to save your profile."
          /\ writes' = writes
          /\ store' = store
          /\ profileSaved' = profileSaved]_vars

\* C7 witness: the handler has refused a save while signed out
C7_Witness ==
    /\ user = null
    /\ error = "You must be signed in to save your profile."
    /\ writes = <<>> /\ issued["op"] >= 1

\* C8: when the write of a save-toggle is rejected, savedJobs becomes the value it
\* had immediately before that toggle and an error is set; when the write
\* resolves, the optimistic value stays.
C8_RollbackOnRejectedWrite ==
    [][/\ \A job \in Jobs :
             (toggleSaveJob(job) /\ Len(writes') > Len(writes)) =>
                 Last(writes').prev = savedJobs
       /\ saveJobRejected =>
             /\ savedJobs' = Head(writes).prev
             /\ error' = "Could not save job. Please try again."
       /\ saveJobResolved => savedJobs' = savedJobs]_vars

\* C8 witness: a rejected toggle write has been rolled back to a non-empty list
C8_Witness ==
    /\ error = "Could not save job. Please try again."
    /\ savedJobs # <<>> /\ issued["op"] >= 1

\* C9: a resolved saveProfile write changes only the userProfile field of the
\* document of the user who issued it, a resolved save-toggle write only the
\* savedJobs field of that document; no other document changes.
C9_WritesMerge ==
    [][/\ (handleSaveProfile /\ Len(writes') > Len(writes)) =>
             Last(writes').uid = user.uid
       /\ \A job \in Jobs :
             (toggleSaveJob(job) /\ Len(writes') > Len(writes)) =>
                 Last(writes').uid = user.uid
       /\ saveProfileResolved =>
             LET w == Head(writes) IN
             /\ \A u \in Uids \ {w.uid} : store'[u] = store[u]
             /\ SameField(store[w.uid], store'[w.uid], "savedJobs")
             /\ store'[w.uid].userProfile = w.data.userProfile
       /\ saveJobResolved =>
             LET w == Head(writes) IN
             /\ \A u \in Uids \ {w.uid} : store'[u] = store[u]
             /\ SameField(store[w.uid], store'[w.uid], "userProfile")
             /\ store'[w.uid].savedJobs = w.data.savedJobs]_vars

\* C9 witness: an edited profile was stored in a document that keeps its saved job
C9_Witness ==
    \E u \in Uids :
        /\ store[u] # null /\ DOMAIN store[u] = {"savedJobs", "userProfile"}
        /\ store[u].savedJobs # <<>>
        /\ store[u].userProfile.preferredTitles = "QA"

\* C10: when the load of a sign-in settles, an existing document is copied to
\* savedJobs and userProfile (missing profile fields defaulted) and not written;
\* a missing one is created with empty savedJobs and the default profile, and
\* the local savedJobs and userProfile equal the created document's contents.
C10_LoadOrCreate ==
    [][/\ \A uid \in Uids :
             getDocExists(uid) =>
                /\ savedJobs' = FieldOr(store[uid], "savedJobs", <<>>)
                /\ \A k \in DOMAIN defaultUserProfile :
                      userProfile'[k] =
                         IF "userProfile" \in DOMAIN store[uid]
                            /\ k \in DOMAIN store[uid].userProfile
                         THEN store[uid].userProfile[k]
                         ELSE defaultUserProfile[k]
                /\ store' = store
       /\ createDocResolved =>
             LET uid == Head(writes).uid IN
             /\ store'[uid] = [savedJobs |-> <<>>, userProfile |-> defaultUserProfile]
             /\ savedJobs' = store'[uid].savedJobs
             /\ userProfile' = store'[uid].userProfile]_vars

\* C11: toggleSaveJob called while no user is signed in sets the sign-in error,
\* leaves savedJobs unchanged and issues no store write.
C11_ToggleSignedOut ==
    [][\A job \in Jobs :
          (toggleSaveJob(job) /\ user = null) =>
             /\ error' = "Please sign in to save jobs."
             /\ savedJobs' = savedJobs
             /\ writes' = writes
             /\ store' = store]_vars

\* C11 witness: a job card's save button was used while signed out
C11_Witness ==
    /\ user = null /\ error = "Please sign in to save jobs."
    /\ step = "jobs_result" /\ issued["op"] >= 1

\* C12: in the main app at most one analysis, one first search and one
\* find-more are in flight at any time: step is 'analyzing' exactly while an
\* analysis is pending, 'finding_jobs' exactly while a first search is pending,
\* and isFindingMoreJobs is true exactly while a find-more is pending.
C12_NoConcurrentDuplicate ==
    app = "index" =>
       /\ \A k \in DOMAIN calls : calls[k] <= 1
       /\ (calls["analyze"] = 1) <=> (step = "analyzing")
       /\ (calls["findJobs"] = 1) <=> (step = "finding_jobs")
       /\ (calls["findMore"] = 1) <=> isFindingMoreJobs

\* C12 witness: a find-more is pending over a list that already holds jobs
C12_Witness ==
    /\ calls["findMore"] = 1 /\ isFindingMoreJobs
    /\ step = "jobs_result" /\ jobsResult # null /\ jobsResult.jobs # <<>>

\* the response texts that carry at least one job
NonEmptyJobsTexts == {t \in JobTexts : ParseJobs(t).ok /\ ParseJobs(t).jobs # <<>>}

IsPrefix(s, t) == Len(s) <= Len(t) /\ SubSeq(t, 1, Len(s)) = s

\* C13: a successful find-more puts the jobs of its response, in response order
\* and without dropping a job whose applyLink is already listed, after the
\* accumulated list; once jobs are shown, every step keeps the list it had as a
\* prefix of the list it has, so that batches stand in the order they settled.
C13_FindMoreAppends ==
    [][/\ \A text \in NonEmptyJobsTexts :
             findMoreResolved(text) =>
                /\ jobsResult # null
                /\ jobsResult'.jobs = jobsResult.jobs \o ParseJobs(text).jobs
       /\ (step = "jobs_result" /\ jobsResult # null) =>
             /\ jobsResult' # null
             /\ IsPrefix(jobsResult.jobs, jobsResult'.jobs)]_vars

C13_Witness ==
    /\ step = "jobs_result" /\ ~isFindingMoreJobs /\ calls["findMore"] = 0
    /\ jobsResult # null /\ jobsResult.jobs = <<J1, J1b, J2>>
    /\ jobsResult.jobs[1].applyLink = jobsResult.jobs[2].applyLink

\* a job-search request is sent: first search or find-more
PromptSent == ClickFindJobs \/ ClickFindMore

ProfileFields ==
    {"preferredTitles", "minSalary", "maxSalary", "careerGoals", "locationPreference"}

\* C14: the prompt of a job search has the career-profile section exactly when
\* one of preferredTitles, minSalary, maxSalary, careerGoals, locationPreference
\* is non-empty; jobAlertsEnabled and jobAlertsFrequency play no part.
C14_ProfileSectionIff ==
    [][PromptSent =>
          ((prompt'.profile # <<>>) <=> (\E f \in ProfileFields : userProfile[f] # ""))]_vars

C14_Witness ==
    /\ calls["findJobs"] = 1 /\ prompt # null /\ prompt.profile = <<>>
    /\ userProfile.jobAlertsEnabled /\ userProfile.jobAlertsFrequency = "daily"

\* what the form's salary texts read as in the prompt
Rendered(s) ==
    CASE s = "0" -> "₹0" [] s = "50000" -> "₹50,000" [] s = "1200000" -> "₹12,00,000"

\* C15: in the salary line of the profile section a present bound is rendered
\* once and an absent one left out: both bounds are joined by ' - ', a single
\* bound stands alone, no bound reads 'Not specified'; an absent bound is never
\* rendered as zero.
C15_SalaryLine ==
    [][(PromptSent /\ prompt'.profile # <<>>) =>
          LET lo   == userProfile.minSalary
              hi   == userProfile.maxSalary
              line == prompt'.profile[1].salary
          IN  /\ (lo # "" /\ hi # "") => line = Rendered(lo) \o " - " \o Rendered(hi)
              /\ (lo # "" /\ hi = "") => line = Rendered(lo)
              /\ (lo = "" /\ hi # "") => line = Rendered(hi)
              /\ (lo = "" /\ hi = "") => line = "Not specified"]_vars

C15_Witness ==
    /\ calls["findJobs"] = 1 /\ prompt # null /\ prompt.profile # <<>>
    /\ userProfile.minSalary = "" /\ userProfile.maxSalary = "1200000"
    /\ prompt.profile[1].salary = "₹12,00,000"

\* the line '- <title> at <company>' of each job
LineOf(job) ==
    CASE job = J1 -> "- A at X" [] job = J1b -> "- B at Y" [] job = J2 -> "- C at Z"

\* C16: the prompt of a find-more lists, under the exclusion instruction, every
\* job of the accumulated list at the time of the request, one line
\* '<title> at <company>' each, in list order; the prompt of a first search, and
\* of a find-more over an empty list, has no exclusion section.
C16_ExclusionLines ==
    [][/\ ClickFindMore =>
             prompt'.existing =
                IF jobsResult.jobs = <<>> THEN <<>>
                ELSE <<[lines |-> [i \in DOMAIN jobsResult.jobs |-> LineOf(jobsResult.jobs[i])]]>>
       /\ ClickFindJobs => prompt'.existing = <<>>]_vars

C16_Witness ==
    /\ calls["findMore"] = 1 /\ isFindingMoreJobs /\ prompt # null
    /\ prompt.existing = <<[lines |-> <<"- A at X", "- B at Y">>]>>

\* the jobs that the section of the given interest lists, in the section's order
SectionJobs(p, interest) ==
    LET S == {i \in DOMAIN p.feedback : p.feedback[i].interest = interest} IN
    IF S = {} THEN <<>>
    ELSE LET lines == p.feedback[CHOOSE i \in S : TRUE].lines
         IN  [k \in DOMAIN lines |-> CHOOSE j \in Jobs : LineOf(j) = lines[k]]

LinksOf(s) == {s[i].applyLink : i \in DOMAIN s}

DistinctLinks(s) == \A i, j \in DOMAIN s : s[i].applyLink = s[j].applyLink => i = j

With(jobs, fb) == SelectSeq(jobs, LAMBDA j : FeedbackOf(jobFeedback, j.applyLink) = fb)

\* C17: the liked jobs of a job-search prompt are the current jobs with 'like'
\* together with all saved jobs, one entry for each applyLink; the disliked jobs
\* are the current jobs with 'dislike'; a job saved and disliked is listed under
\* both. A first search has no current jobs: its liked jobs are the saved ones.
C17_LikedAndDisliked ==
    [][/\ ClickFindMore =>
             LET cur      == jobsResult.jobs
                 liked    == SectionJobs(prompt', "POSITIVE")
                 disliked == SectionJobs(prompt', "NEGATIVE")
             IN  /\ DistinctLinks(liked)
                 /\ LinksOf(liked) = LinksOf(With(cur, "like")) \cup LinksOf(savedJobs)
                 /\ Range(liked) \subseteq Range(With(cur, "like")) \cup Range(savedJobs)
                 /\ disliked = With(cur, "dislike")
                 /\ \A j \in Range(savedJobs) :
                       j.applyLink \in LinksOf(With(cur, "dislike")) =>
                          j.applyLink \in LinksOf(liked) \cap LinksOf(disliked)
       /\ ClickFindJobs =>
             /\ DistinctLinks(SectionJobs(prompt', "POSITIVE"))
             /\ Range(SectionJobs(prompt', "POSITIVE")) = Range(savedJobs)
             /\ SectionJobs(prompt', "NEGATIVE") = <<>>]_vars

C17_Witness ==
    /\ calls["findMore"] = 1 /\ prompt # null /\ J1 \in Range(savedJobs)
    /\ J1 \in Range(SectionJobs(prompt, "POSITIVE"))
    /\ J1 \in Range(SectionJobs(prompt, "NEGATIVE"))

C19_ErrorRendered ==
    [][(app = "index" /\ error' # NoError /\ error' # error) => ErrorShown']_vars

\* the response texts from which no job list can be read: no fenced block,
\* invalid JSON inside the fence, JSON null
FailedJobsTexts == {t \in JobTexts : ~ParseJobs(t).ok}

\* C20: a first search that fails (rejected request, no fence, invalid JSON in
\* the fence) ends in step 'analysis_result' with jobsResult null and the error
\* carrying the underlying message, and leaves analysisResult, savedJobs and the
\* feedback map as they were; a find-more that fails leaves the step
\* 'jobs_result' and the accumulated list as they were.
C20_FailedSearchKeepsState ==
    [][/\ calls'["findJobs"] < calls["findJobs"] =>
             /\ (findJobsRejected \/ \E text \in FailedJobsTexts : findJobsResolved(text)) =>
                   /\ step' = "analysis_result"
                   /\ jobsResult' = null
                   /\ analysisResult' = analysisResult /\ analysisResult # null
                   /\ savedJobs' = savedJobs
                   /\ jobFeedback' = jobFeedback
             /\ findJobsRejected => error' = "Job search failed: fetch failed."
             /\ \A text \in FailedJobsTexts :
                   findJobsResolved(text) =>
                      error' = "Job search failed: " \o ParseJobs(text).message \o "."
       /\ (/\ calls'["findMore"] < calls["findMore"]
           /\ (findMoreRejected \/ \E text \in FailedJobsTexts : findMoreResolved(text))) =>
             /\ step = "jobs_result" /\ step' = "jobs_result"
             /\ jobsResult' = jobsResult /\ jobsResult # null]_vars

C20_Witness ==
    /\ step = "analysis_result" /\ jobsResult = null /\ analysisResult = A1
    /\ calls["findJobs"] = 0
    /\ error = "Job search failed: Unexpected token."

\* the steps in which an upload ends rejected: an extension without a branch, or
\* an extraction that throws
UploadRejected ==
    \/ \E file \in Files : ~Accepted(file) /\ (fileResolved(file) \/ P2_ClickUpload(file))
    \/ \E file \in Files, message \in ReadFailures :
          fileRejected(file, message) \/ P2_fileRejected(file, message)

\* C21: a file's text is taken only when its extension, case-insensitively, is
\* txt, md, pdf or docx; an upload of any other extension, or one whose
\* extraction fails, ends with an error and afterwards resumeText is empty, no
\* preview content or type is set, uploadedFileName is null, and step,
\* analysisResult and jobsResult are what they were.
C21_RejectedUploadLeavesInputEmpty ==
    [][/\ \A file \in Files :
             (fileResolved(file) \/ P2_fileResolved(file)) /\ resumeText' = file.text
                 => Extension(file) \in {"txt", "md", "pdf", "docx"}
       /\ UploadRejected =>
             /\ error' # NoError
             /\ resumeText' = ""
             /\ previewContent' = NoContent /\ previewType' = NoType
             /\ uploadedFileName' = NoName
             /\ UNCHANGED <<step, analysisResult, jobsResult>>]_vars

\* C22: the feedback map is never written to the store, and it is empty after
\* every sign-out (the change of identity that ends a session; the sign-in that
\* follows starts from what the sign-out left) and after every start of an
\* analysis, so that no reaction of an earlier session is in a later prompt.
C22_FeedbackResetPerSession ==
    [][/\ \A i \in DOMAIN writes' : "jobFeedback" \notin DOMAIN writes'[i].data
       /\ \A uid \in Uids : store'[uid] # null => "jobFeedback" \notin DOMAIN store'[uid]
       /\ (AuthStateChanged(null) /\ user # null) => jobFeedback' = <<>>
       /\ ClickAnalyze => jobFeedback' = <<>>]_vars

\* a setDoc in flight gives the same collection delivered twice as delivered once
Idempotent(w) == Delivered(Delivered(store, w), w) = Delivered(store, w)

\* C23 (as claimed): every store write is idempotent, delivering it twice gives
\* what delivering it once gives: the profile save, the saved-jobs write, the
\* initial document creation, and the earlier App's add() of an analysis.
C23_EveryWriteIdempotent ==
    /\ \A i \in DOMAIN writes : Idempotent(writes[i])
    /\ \A t \in TaskKinds("add") :
          Add(Add(analyses, t.data), t.data) = Add(analyses, t.data)

\* C23 (amended): every setDoc write of the main app is idempotent (profile
\* save, saved-jobs write, initial document creation); the earlier App's add()
\* is not: each delivery stores one more document.
C23_SetDocIdempotent ==
    /\ \A i \in DOMAIN writes : Idempotent(writes[i])
    /\ \A t \in TaskKinds("add") :
          Len(Add(Add(analyses, t.data), t.data)) = Len(Add(analyses, t.data)) + 1

C23_Witness ==
    /\ app = "index" /\ writes # <<>>
    /\ Head(writes).op = "saved" /\ Head(writes).data.savedJobs # <<>>
    /\ store[Head(writes).uid] # null
    /\ Applied(Head(writes)) # store

\* index.tsx 20: the edges of AppStep that the claim allows
StepEdges ==
    {<<"input", "analyzing">>, <<"analyzing", "analysis_result">>, <<"analyzing", "input">>,
     <<"analysis_result", "finding_jobs">>, <<"finding_jobs", "jobs_result">>,
     <<"finding_jobs", "analysis_result">>}

C25_StepResultInvariants ==
    app = "index" =>
        /\ step \in {"analysis_result", "finding_jobs", "jobs_result"} => analysisResult # null
        /\ step = "jobs_result" => jobsResult # null
        /\ step \in {"input", "analyzing"} => analysisResult = null
        /\ step # "jobs_result" => jobsResult = null
        /\ isFindingMoreJobs => step = "jobs_result"

C25_Witness ==
    /\ app = "index" /\ step = "analysis_result" /\ analysisResult # null
    /\ jobsResult = null /\ error = "Job search failed: fetch failed."

\* C26: in the earlier App a sign-out resets the flow and no request in flight
\* undoes the reset: whenever Firebase is initialized, no user is signed in and
\* no model or store call is pending, step is 'input' and analysisResult and
\* jobsResult are null; and no analysis is stored for a user who is signed out.
C26_SignOutResetsFlow ==
    [][app = "part_002" /\ firebaseInitialized =>
        /\ (user' = null /\ tasks' = EmptyBag) =>
              step' = "input" /\ analysisResult' = null /\ jobsResult' = null
        /\ analyses' # analyses =>
              user # null /\ analyses'[Len(analyses')].userId = user.uid]_vars

\* no getDoc and no setDoc is in flight
StoreQuiet == InFlight(reads) = 0 /\ writes = <<>>

\* C27: in the main app, whenever no user is signed in and no store read or
\* write is pending, the local savedJobs is empty; whenever a user is signed in
\* and no store operation is pending, savedJobs holds no jobs loaded from another
\* user's document (before any save-toggle the list is empty or the list of the
\* user's own document), whatever the order of sign-ins, sign-outs, slow profile
\* loads and failing writes.
C27_SavedJobsOfSignedInUser ==
    (app = "index" /\ StoreQuiet) =>
        /\ user = null => savedJobs = <<>>
        /\ (user # null /\ issued["op"] = 0) =>
              savedJobs \in {<<>>, FieldOr(store[user.uid], "savedJobs", <<>>)}

\* C28: for one signed-in user, after any sequence of save-toggles, overlapping
\* ones included, once every write has settled (each resolved or rejected on
\* its own), the local savedJobs has the same set of applyLinks as the
\* savedJobs of the stored document.
C28_LocalMatchesStored ==
    (app = "index" /\ user # null /\ StoreQuiet) =>
        LinksOf(savedJobs) = LinksOf(FieldOr(store[user.uid], "savedJobs", <<>>))

\* the two files of the race: the earlier chosen one and the later chosen one
Earlier == File(<<"cv", "docx">>, "docx text")
Later == File(<<"notes", "md">>, "md text")

\* C29: when a second file is chosen while the extraction of the first is still
\* pending, the text, the preview and the displayed name come from the file
\* chosen last: a failure of the earlier extraction never clears the later
\* file's name or changes what is shown, and a completion of the earlier one that
\* comes after the later file's text is shown never overwrites it.
C29_LatestFileWins ==
    [][(app = "index" /\ uploadedFileName = Later.name /\ BagIn(Earlier, uploads)) =>
        /\ (\E message \in ReadFailures : fileRejected(Earlier, message)) =>
              /\ uploadedFileName' = Later.name
              /\ UNCHANGED <<resumeText, previewContent, previewType>>
        /\ (fileResolved(Earlier) /\ resumeText = Later.text) =>
              UNCHANGED <<uploadedFileName, resumeText, previewContent, previewType>>]_vars

\* C30: provided every model call eventually settles, the main app does not
\* stay in step 'analyzing' or 'finding_jobs' forever, and every find-more
\* request is eventually followed by isFindingMoreJobs = false.
C30_RequestsEnd ==
    /\ (step = "analyzing") ~> (step # "analyzing")
    /\ (step = "finding_jobs") ~> (step # "finding_jobs")
    /\ isFindingMoreJobs ~> ~isFindingMoreJobs

C30_Witness ==
    /\ app = "index" /\ step = "jobs_result" /\ ~isFindingMoreJobs
    /\ calls["findMore"] = 0 /\ error = "Finding more jobs failed: fetch failed."

====
